---- MODULE Spec2Model ----
(***************************************************************************)
(* Flappy Bird (Rust / Bevy): the screen state machine, the save slots and *)
(* the per-run bookkeeping of src/src/main.rs.                             *)
(*                                                                         *)
(* One frame of the engine is: the StateTransition schedule (a pending     *)
(* NextState is applied: OnExit of the old state, OnEnter of the new one), *)
(* then the Update schedule, in which the systems of the current state run *)
(* in an order the engine chooses.  NextState::set overwrites an earlier   *)
(* request of the same frame, so the last system to call it wins.          *)
(*                                                                         *)
(* What the pipes and the bird's position decide in update_bird (floor     *)
(* test, pipe passed, pipe box hit) enters a frame as an input: the pipe   *)
(* offsets come from thread_rng and the positions from the frame deltas.   *)
(***************************************************************************)
EXTENDS Integers, Sequences, FiniteSets, TLC

\* ------------------------------------------------------------------ bounds
\* cap on score.current in Endless and TimeAttack runs
MaxScore == 1
\* cap on score.current in Checkpoints runs
MaxCheckpointScore == 40
\* cap on score.current in the specification of checkpoint runs
MaxVictoryScore == 61
\* number of runs (entries into Playing) explored
MaxRuns == 1
\* number of runs explored by the specification of consecutive runs
MaxSlotRuns == 2
\* cap on score.current in its Checkpoints runs (Easy ends at 20)
MaxEasyScore == 20
\* number of picker selections that change a setting
MaxPicks == 1
\* largest frame delta, in seconds; the deltas are coarse so that the 60 s
\* countdown ends within a few frames (only their sum matters to the timer)
MaxDelta == 30
\* the run-duration observer saturates here
MaxElapsed == 60
\* runs and score range of the running-average specification
MaxAvgRuns == 8
MaxAvgScore == 5
\* the scores of the records the leaderboard is built from
MaxBoardScore == 1
\* the score at which a run with tracked pipes stops scoring
MaxTrackedScore == 5
\* largest score.current of the runs at the bird's heights
MaxHeightScore == 1

\* Space presses of an Endless or timed run whose bird is followed
MaxFlaps == 1

\* ------------------------------------------------------- program constants
TIME_ATTACK_SECONDS == 60
SLOTS == 1 .. 3
PIXEL_RATIO == 4
OBSTACLE_AMOUNT == 5
OBSTACLE_WIDTH == 32
OBSTACLE_HEIGHT == 144
OBSTACLE_SPACING == 60
\* the window's width as the window plugin sets it
WINDOW_WIDTH == 800
WINDOW_HEIGHT == 600

\* Option<T>
None == << >>
Some(x) == << x >>
IsSome(o) == o # << >>
Unwrap(o) == o[1]

Max(a, b) == IF a > b THEN a ELSE b
Min(a, b) == IF a < b THEN a ELSE b

\* ------------------------------------------------------------------- enums
GameState ==
    { "MainMenu", "Options", "SaveSelect", "ModeSelect", "DifficultySelect",
      "ThemeSelect", "SkinSelect", "Playing", "GameOver", "Victory",
      "Leaderboard" }

GameMode == { "GameMode::Endless", "GameMode::TimeAttack", "GameMode::Checkpoints" }
Difficulty == { "Difficulty::Easy", "Difficulty::Normal", "Difficulty::Hard" }
Theme == { "Theme::Classic", "Theme::HighContrast", "Theme::Minimal" }
Skin == { "Skin::Classic", "Skin::Red", "Skin::Blue", "Skin::Green" }

\* ------------------------------------------------------ f32 (non-negative)
\* A value is m * 2^e with 2^23 <= m < 2^24, or zero; results are rounded to
\* nearest, ties to even, as IEEE 754 single precision does.
F32Zero == [m |-> 0, e |-> 0]

RECURSIVE F32Norm(_, _)
F32Norm(m, e) ==
    IF m = 0 THEN F32Zero
    ELSE IF m < 8388608 THEN F32Norm(2 * m, e - 1)
    ELSE [m |-> m, e |-> e]

RECURSIVE F32Shift(_, _)
\* the number of bits p has above 24
F32Shift(p, s) == IF p < 16777216 * (2 ^ s) THEN s ELSE F32Shift(p, s + 1)

\* round the exact value p * 2^e to f32
F32Round(p, e) ==
    IF p < 16777216 THEN F32Norm(p, e)
    ELSE LET s == F32Shift(p, 1)
             q == p \div (2 ^ s)
             r == p % (2 ^ s)
             half == 2 ^ (s - 1)
             up == r > half \/ (r = half /\ q % 2 = 1)
             q1 == IF up THEN q + 1 ELSE q
         IN  IF q1 = 16777216 THEN [m |-> 8388608, e |-> e + s + 1]
             ELSE [m |-> q1, e |-> e + s]

\* `k as f32` for k < 2^24
F32FromNat(k) == F32Norm(k, 0)

\* a * (k as f32)
F32MulNat(a, k) == IF a.m = 0 \/ k = 0 THEN F32Zero ELSE F32Round(a.m * k, a.e)

\* a + (k as f32), for a < 2^24
F32AddNat(a, k) ==
    IF a.m = 0 THEN F32FromNat(k)
    ELSE IF a.e >= 0 THEN F32Round(a.m * (2 ^ a.e) + k, 0)
    ELSE F32Round(a.m + k * (2 ^ (0 - a.e)), a.e)

RECURSIVE F32DivShift(_, _, _)
F32DivShift(m, n, s) ==
    IF (m * (2 ^ s)) \div n >= 8388608 THEN s ELSE F32DivShift(m, n, s + 1)

\* a / (n as f32), n >= 1
F32DivNat(a, n) ==
    IF a.m = 0 THEN F32Zero
    ELSE LET s == F32DivShift(a.m, n, 0)
             num == a.m * (2 ^ s)
             q == num \div n
             r == num % n
             up == 2 * r > n \/ (2 * r = n /\ q % 2 = 1)
             q1 == IF up THEN q + 1 ELSE q
         IN  IF q1 = 16777216 THEN [m |-> 8388608, e |-> a.e - s + 1]
             ELSE [m |-> q1, e |-> a.e - s]

\* ------------------------------------------- serde: enums <-> JSON strings
SerializeGameMode(m) ==
    CASE m = "GameMode::Endless" -> "Endless"
      [] m = "GameMode::TimeAttack" -> "TimeAttack"
      [] m = "GameMode::Checkpoints" -> "Checkpoints"

DeserializeGameMode(s) ==
    CASE s = "Endless" -> Some("GameMode::Endless")
      [] s = "TimeAttack" -> Some("GameMode::TimeAttack")
      [] s = "Checkpoints" -> Some("GameMode::Checkpoints")
      [] OTHER -> None

SerializeDifficulty(d) ==
    CASE d = "Difficulty::Easy" -> "Easy"
      [] d = "Difficulty::Normal" -> "Normal"
      [] d = "Difficulty::Hard" -> "Hard"

DeserializeDifficulty(s) ==
    CASE s = "Easy" -> Some("Difficulty::Easy")
      [] s = "Normal" -> Some("Difficulty::Normal")
      [] s = "Hard" -> Some("Difficulty::Hard")
      [] OTHER -> None

SerializeTheme(t) ==
    CASE t = "Theme::Classic" -> "Classic"
      [] t = "Theme::HighContrast" -> "HighContrast"
      [] t = "Theme::Minimal" -> "Minimal"

DeserializeTheme(s) ==
    CASE s = "Classic" -> Some("Theme::Classic")
      [] s = "HighContrast" -> Some("Theme::HighContrast")
      [] s = "Minimal" -> Some("Theme::Minimal")
      [] OTHER -> None

SerializeSkin(k) ==
    CASE k = "Skin::Classic" -> "Classic"
      [] k = "Skin::Red" -> "Red"
      [] k = "Skin::Blue" -> "Blue"
      [] k = "Skin::Green" -> "Green"

\* a skin deserializer that confuses two names
DeserializeSkin_swapped(s) ==
    CASE s = "Classic" -> Some("Skin::Classic")
      [] s = "Red" -> Some("Skin::Red")
      [] s = "Blue" -> Some("Skin::Green")
      [] s = "Green" -> Some("Skin::Blue")
      [] OTHER -> None

DeserializeSkin(s) ==
    CASE s = "Classic" -> Some("Skin::Classic")
      [] s = "Red" -> Some("Skin::Red")
      [] s = "Blue" -> Some("Skin::Blue")
      [] s = "Green" -> Some("Skin::Green")
      [] OTHER -> None

\* ------------------------------------------------------------- save files
\* The content of saves/slot_k.json: no file, a file serde_json cannot read
\* as a SaveSlot, or the JSON text of a SaveSlot (enums as strings).
NoFile == [kind |-> "absent"]
Garbage == [kind |-> "garbage"]

PathExists(doc) == doc.kind # "absent"

\* serde_json::to_string_pretty(slot)
SerializeSaveSlot(slot) ==
    [kind |-> "json",
     slot_number |-> slot.slot_number,
     profile |-> slot.profile,
     mode |-> SerializeGameMode(slot.mode),
     difficulty |-> SerializeDifficulty(slot.difficulty),
     theme |-> SerializeTheme(slot.theme),
     skin |-> SerializeSkin(slot.skin),
     score |-> slot.score,
     survival_time |-> slot.survival_time]

\* serde_json::from_str(&contents).ok()
DeserializeSaveSlot(doc) ==
    IF doc.kind # "json" THEN None
    ELSE LET mode == DeserializeGameMode(doc.mode)
             difficulty == DeserializeDifficulty(doc.difficulty)
             theme == DeserializeTheme(doc.theme)
             skin == DeserializeSkin(doc.skin)
         IN  IF IsSome(mode) /\ IsSome(difficulty) /\ IsSome(theme) /\ IsSome(skin)
             THEN Some([slot_number |-> doc.slot_number,
                        profile |-> doc.profile,
                        mode |-> Unwrap(mode),
                        difficulty |-> Unwrap(difficulty),
                        theme |-> Unwrap(theme),
                        skin |-> Unwrap(skin),
                        score |-> doc.score,
                        survival_time |-> doc.survival_time])
             ELSE None

load_save_slot(fs, slot) ==
    IF PathExists(fs[slot]) THEN DeserializeSaveSlot(fs[slot]) ELSE None

\* fs::write succeeds (io_ok) or fails and leaves the file as it was
save_to_slot(fs, slot, io_ok) ==
    IF io_ok THEN [fs EXCEPT ![slot.slot_number] = SerializeSaveSlot(slot)]
    ELSE fs

\* a delete that clears the whole saves directory
delete_save_slot_all(fs, slot, io_ok) ==
    IF PathExists(fs[slot]) /\ io_ok
    THEN << [k \in SLOTS |-> NoFile], TRUE >>
    ELSE << fs, FALSE >>

\* <<files after, returned bool>>
delete_save_slot(fs, slot, io_ok) ==
    IF PathExists(fs[slot]) /\ io_ok
    THEN << [fs EXCEPT ![slot] = NoFile], TRUE >>
    ELSE << fs, FALSE >>

\* ---------------------------------------------------------------- profile
\* format!("Player {}", slot_num)
PlayerName(slot_num) ==
    CASE slot_num = 1 -> "Player 1"
      [] slot_num = 2 -> "Player 2"
      [] slot_num = 3 -> "Player 3"

\* the profile of a slot without a save, as PlayerProfile::default names it
NewProfile_default(slot_num) ==
    [name |-> "Player",
     high_score |-> 0,
     total_games |-> 0,
     average_score |-> F32Zero,
     longest_survival |-> F32Zero]

NewProfile(slot_num) ==
    [name |-> PlayerName(slot_num),
     high_score |-> 0,
     total_games |-> 0,
     average_score |-> F32Zero,
     longest_survival |-> F32Zero]

\* the profile update taking the last score for the high score
ProfileAfterRun_last(profile, current) ==
    LET total_games == profile.total_games + 1
    IN  [profile EXCEPT
           !.total_games = total_games,
           !.high_score = current,
           !.average_score =
               F32DivNat(F32AddNat(F32MulNat(profile.average_score,
                                             total_games - 1),
                                   current),
                         total_games)]

\* the profile update weighting the old average by the new number of games
ProfileAfterRun_weight(profile, current) ==
    LET total_games == profile.total_games + 1
    IN  [profile EXCEPT
           !.total_games = total_games,
           !.high_score = IF current > profile.high_score
                          THEN current ELSE profile.high_score,
           !.average_score =
               F32DivNat(F32AddNat(F32MulNat(profile.average_score,
                                             total_games),
                                   current),
                         total_games)]

\* update_bird, the profile statistics of a run that ended with `current`
ProfileAfterRun(profile, current) ==
    LET total_games == profile.total_games + 1
    IN  [profile EXCEPT
           !.total_games = total_games,
           !.high_score = IF current > profile.high_score
                          THEN current ELSE profile.high_score,
           !.average_score =
               F32DivNat(F32AddNat(F32MulNat(profile.average_score,
                                             total_games - 1),
                                   current),
                         total_games)]

\* update_bird naming slot 1 in every record
MakeSaveSlot_slot1(slot_num, loaded, st, current) ==
    LET profile == IF IsSome(loaded) THEN Unwrap(loaded).profile
                   ELSE NewProfile(slot_num)
    IN  [slot_number |-> 1,
         profile |-> ProfileAfterRun(profile, current),
         mode |-> st.selected_mode,
         difficulty |-> st.selected_difficulty,
         theme |-> st.selected_theme,
         skin |-> st.selected_skin,
         score |-> current,
         survival_time |-> F32Zero]

\* update_bird, the record handed to save_to_slot
MakeSaveSlot(slot_num, loaded, st, current) ==
    LET profile == IF IsSome(loaded) THEN Unwrap(loaded).profile
                   ELSE NewProfile(slot_num)
    IN  [slot_number |-> slot_num,
         profile |-> ProfileAfterRun(profile, current),
         mode |-> st.selected_mode,
         difficulty |-> st.selected_difficulty,
         theme |-> st.selected_theme,
         skin |-> st.selected_skin,
         score |-> current,
         survival_time |-> F32Zero]


\* ------------------------------------------------------- checkpoints state
\* CheckpointsState::new
CheckpointsState_new(difficulty) ==
    [checkpoints |->
         CASE difficulty = "Difficulty::Easy" -> << 5, 10, 15, 20 >>
           [] difficulty = "Difficulty::Normal" -> << 10, 20, 30, 40 >>
           [] difficulty = "Difficulty::Hard" -> << 15, 30, 45, 60 >>,
     current_checkpoint_index |-> 0,
     completed |-> FALSE,
     last_checkpoint_score |-> 0]

\* indices are 0-based in the code, sequences 1-based here
target_score(c) ==
    IF c.current_checkpoint_index < Len(c.checkpoints)
    THEN c.checkpoints[c.current_checkpoint_index + 1]
    ELSE IF Len(c.checkpoints) > 0 THEN c.checkpoints[Len(c.checkpoints)] ELSE 0

\* update_checkpoints declaring the checkpoint before the last the final one
is_final_checkpoint_early(c) ==
    c.current_checkpoint_index >= Len(c.checkpoints) - 2

is_final_checkpoint(c) ==
    c.current_checkpoint_index >= Len(c.checkpoints) - 1

\* ------------------------------------------------------------------- state
VARIABLES
    state,        \* State<GameState>
    next_state,   \* NextState<GameState>: the pending request, if any
    settings,     \* GameSettings
    origin,       \* SaveSelectOrigin.origin_state
    flag,         \* SaveSlotChanged.changed
    files,        \* saves/slot_k.json, k in 1..3
    score,        \* the Score resource, absent before the first run
    timer,        \* the TimeAttackState resource, if any
    cp,           \* the CheckpointsState resource, if any
    birds,        \* number of entities with a Bird component
    pose,         \* the bird's (velocity, y): "none", "origin" or "flying"
    bird,         \* the Bird's velocity and its Transform's y, if there is one
    obstacles,    \* the entities with an Obstacle component
    board,        \* the entries the leaderboard screen shows
    saveLog,      \* observer: the save_to_slot call of this frame, if any
    elapsed,      \* observer: seconds of Playing since the run started
    runs,         \* observer: runs started
    picks,        \* observer: picker selections that changed a setting
    flaps,        \* observer: frames of a run of FallFrame in which Space flapped
    released,     \* observer: the player has let go of Space for the rest of the run
    avgProfile,   \* running-average specification: the profile
    avgSum        \* running-average specification: the sum of the scores

vars ==
    << state, next_state, settings, origin, flag, files, score, timer, cp,
       birds, pose, bird, obstacles, board, saveLog, elapsed, runs, picks,
       flaps, released, avgProfile, avgSum >>

\* what the systems of a frame read and write
World ==
    [next_state |-> next_state, settings |-> settings, origin |-> origin,
     flag |-> flag, files |-> files, score |-> score, timer |-> timer,
     cp |-> cp, birds |-> birds, pose |-> pose, bird |-> bird,
     obstacles |-> obstacles,
     board |-> board, saveLog |-> saveLog, elapsed |-> elapsed]

Commit(world) ==
    \E w \in { world } :
        /\ next_state' = w.next_state
        /\ settings' = w.settings
        /\ origin' = w.origin
        /\ flag' = w.flag
        /\ files' = w.files
        /\ score' = w.score
        /\ timer' = w.timer
        /\ cp' = w.cp
        /\ birds' = w.birds
        /\ pose' = w.pose
        /\ bird' = w.bird
        /\ obstacles' = w.obstacles
        /\ board' = w.board
        /\ saveLog' = w.saveLog
        /\ elapsed' = w.elapsed

\* GameSettings::default
DefaultSettings ==
    [current_slot |-> None,
     selected_mode |-> "GameMode::Endless",
     selected_difficulty |-> "Difficulty::Normal",
     selected_theme |-> "Theme::Classic",
     selected_skin |-> "Skin::Classic"]

\* Score::default
DefaultScore == [current |-> 0, best |-> 0]

\* ------------------------------------------------------------ menu systems
\* main_menu_system starting the run on Space whether a slot is chosen or not
main_menu_system_plays(w, in) ==
    LET w1 == IF "Space" \in in.keys
              THEN [w EXCEPT !.next_state = Some("Playing")]
              ELSE w
        w2 == IF "KeyO" \in in.keys
              THEN [w1 EXCEPT !.next_state = Some("Options")] ELSE w1
    IN  IF "KeyL" \in in.keys
        THEN [w2 EXCEPT !.next_state = Some("Leaderboard")] ELSE w2

main_menu_system(w, in) ==
    LET w1 == IF "Space" \in in.keys
              THEN IF w.settings.current_slot = None
                   THEN [w EXCEPT !.origin = "MainMenu",
                                  !.next_state = Some("SaveSelect")]
                   ELSE [w EXCEPT !.next_state = Some("Playing")]
              ELSE w
        w2 == IF "KeyO" \in in.keys
              THEN [w1 EXCEPT !.next_state = Some("Options")] ELSE w1
    IN  IF "KeyL" \in in.keys
        THEN [w2 EXCEPT !.next_state = Some("Leaderboard")] ELSE w2

\* options_system without the insert of SaveSelectOrigin
options_system_keeps_origin(w, in) ==
    IF "Escape" \in in.keys THEN [w EXCEPT !.next_state = Some("MainMenu")]
    ELSE IF "Digit1" \in in.keys THEN [w EXCEPT !.next_state = Some("SaveSelect")]
    ELSE IF "Digit2" \in in.keys THEN [w EXCEPT !.next_state = Some("ModeSelect")]
    ELSE IF "Digit3" \in in.keys
         THEN [w EXCEPT !.next_state = Some("DifficultySelect")]
    ELSE IF "Digit4" \in in.keys THEN [w EXCEPT !.next_state = Some("ThemeSelect")]
    ELSE IF "Digit5" \in in.keys THEN [w EXCEPT !.next_state = Some("SkinSelect")]
    ELSE w

options_system(w, in) ==
    IF "Escape" \in in.keys THEN [w EXCEPT !.next_state = Some("MainMenu")]
    ELSE IF "Digit1" \in in.keys
         THEN [w EXCEPT !.origin = "Options", !.next_state = Some("SaveSelect")]
    ELSE IF "Digit2" \in in.keys THEN [w EXCEPT !.next_state = Some("ModeSelect")]
    ELSE IF "Digit3" \in in.keys
         THEN [w EXCEPT !.next_state = Some("DifficultySelect")]
    ELSE IF "Digit4" \in in.keys THEN [w EXCEPT !.next_state = Some("ThemeSelect")]
    ELSE IF "Digit5" \in in.keys THEN [w EXCEPT !.next_state = Some("SkinSelect")]
    ELSE w

DigitKey(n) ==
    CASE n = 1 -> "Digit1" [] n = 2 -> "Digit2" [] n = 3 -> "Digit3"
      [] n = 4 -> "Digit4" [] n = 5 -> "Digit5"

\* save_select_system, a digit pressed without Ctrl: select the slot
select_slot(w, slot) ==
    LET save_data == load_save_slot(w.files, slot)
        st == IF IsSome(save_data)
              THEN [current_slot |-> Some(slot),
                    selected_mode |-> Unwrap(save_data).mode,
                    selected_difficulty |-> Unwrap(save_data).difficulty,
                    selected_theme |-> Unwrap(save_data).theme,
                    selected_skin |-> Unwrap(save_data).skin]
              ELSE [current_slot |-> Some(slot),
                    selected_mode |-> "GameMode::Endless",
                    selected_difficulty |-> "Difficulty::Normal",
                    selected_theme |-> "Theme::Classic",
                    selected_skin |-> "Skin::Classic"]
    IN  [w EXCEPT !.settings = st,
                  !.next_state = IF w.origin = "MainMenu"
                                 THEN Some("Playing") ELSE Some("MainMenu")]

RECURSIVE save_select_loop_own_slot(_, _, _, _)
\* the loop clearing current_slot only when the removed file is its own
save_select_loop_own_slot(w, in, slot, slot_deleted) ==
    IF slot > 3
    THEN IF slot_deleted THEN [w EXCEPT !.flag = TRUE] ELSE w
    ELSE IF DigitKey(slot) \in in.keys
         THEN IF in.ctrl
              THEN LET d == delete_save_slot(w.files, slot, in.io_ok)
                   IN  IF d[2]
                       THEN save_select_loop_own_slot(
                                [w EXCEPT !.files = d[1],
                                          !.settings.current_slot =
                                              IF @ = Some(slot) THEN None ELSE @],
                                in, slot + 1, TRUE)
                       ELSE save_select_loop_own_slot(w, in, slot + 1, slot_deleted)
              ELSE select_slot(w, slot)
         ELSE save_select_loop_own_slot(w, in, slot + 1, slot_deleted)

RECURSIVE save_select_loop(_, _, _, _)
\* save_select_system, the loop over (Digit1, 1), (Digit2, 2), (Digit3, 3)
save_select_loop(w, in, slot, slot_deleted) ==
    IF slot > 3
    THEN IF slot_deleted THEN [w EXCEPT !.flag = TRUE] ELSE w
    ELSE IF DigitKey(slot) \in in.keys
         THEN IF in.ctrl
              THEN LET d == delete_save_slot(w.files, slot, in.io_ok)
                   IN  IF d[2]
                       THEN save_select_loop(
                                [w EXCEPT !.files = d[1],
                                          !.settings.current_slot = None],
                                in, slot + 1, TRUE)
                       ELSE save_select_loop(w, in, slot + 1, slot_deleted)
              ELSE select_slot(w, slot)
         ELSE save_select_loop(w, in, slot + 1, slot_deleted)

save_select_system(w, in) ==
    IF "Escape" \in in.keys THEN [w EXCEPT !.next_state = Some(w.origin)]
    ELSE save_select_loop(w, in, 1, FALSE)

refresh_save_select_ui(w, in) ==
    IF w.flag THEN [w EXCEPT !.flag = FALSE] ELSE w

mode_select_system(w, in) ==
    IF "Escape" \in in.keys THEN [w EXCEPT !.next_state = Some("Options")]
    ELSE IF "Digit1" \in in.keys
         THEN [w EXCEPT !.settings.selected_mode = "GameMode::Endless",
                        !.next_state = Some("Options")]
    ELSE IF "Digit2" \in in.keys
         THEN [w EXCEPT !.settings.selected_mode = "GameMode::TimeAttack",
                        !.next_state = Some("Options")]
    ELSE IF "Digit3" \in in.keys
         THEN [w EXCEPT !.settings.selected_mode = "GameMode::Checkpoints",
                        !.next_state = Some("Options")]
    ELSE w

difficulty_select_system(w, in) ==
    IF "Escape" \in in.keys THEN [w EXCEPT !.next_state = Some("Options")]
    ELSE IF "Digit1" \in in.keys
         THEN [w EXCEPT !.settings.selected_difficulty = "Difficulty::Easy",
                        !.next_state = Some("Options")]
    ELSE IF "Digit2" \in in.keys
         THEN [w EXCEPT !.settings.selected_difficulty = "Difficulty::Normal",
                        !.next_state = Some("Options")]
    ELSE IF "Digit3" \in in.keys
         THEN [w EXCEPT !.settings.selected_difficulty = "Difficulty::Hard",
                        !.next_state = Some("Options")]
    ELSE w

\* a theme picker that also sets the skin
theme_select_system_resets_skin(w, in) ==
    IF "Escape" \in in.keys THEN [w EXCEPT !.next_state = Some("Options")]
    ELSE IF "Digit1" \in in.keys
         THEN [w EXCEPT !.settings.selected_theme = "Theme::Classic",
                        !.next_state = Some("Options")]
    ELSE IF "Digit2" \in in.keys
         THEN [w EXCEPT !.settings.selected_theme = "Theme::HighContrast",
                        !.settings.selected_skin = "Skin::Red",
                        !.next_state = Some("Options")]
    ELSE IF "Digit3" \in in.keys
         THEN [w EXCEPT !.settings.selected_theme = "Theme::Minimal",
                        !.next_state = Some("Options")]
    ELSE w

theme_select_system(w, in) ==
    IF "Escape" \in in.keys THEN [w EXCEPT !.next_state = Some("Options")]
    ELSE IF "Digit1" \in in.keys
         THEN [w EXCEPT !.settings.selected_theme = "Theme::Classic",
                        !.next_state = Some("Options")]
    ELSE IF "Digit2" \in in.keys
         THEN [w EXCEPT !.settings.selected_theme = "Theme::HighContrast",
                        !.next_state = Some("Options")]
    ELSE IF "Digit3" \in in.keys
         THEN [w EXCEPT !.settings.selected_theme = "Theme::Minimal",
                        !.next_state = Some("Options")]
    ELSE w

skin_select_system(w, in) ==
    IF "Escape" \in in.keys THEN [w EXCEPT !.next_state = Some("Options")]
    ELSE IF "Digit1" \in in.keys
         THEN [w EXCEPT !.settings.selected_skin = "Skin::Classic",
                        !.next_state = Some("Options")]
    ELSE IF "Digit2" \in in.keys
         THEN [w EXCEPT !.settings.selected_skin = "Skin::Red",
                        !.next_state = Some("Options")]
    ELSE IF "Digit3" \in in.keys
         THEN [w EXCEPT !.settings.selected_skin = "Skin::Blue",
                        !.next_state = Some("Options")]
    ELSE IF "Digit4" \in in.keys
         THEN [w EXCEPT !.settings.selected_skin = "Skin::Green",
                        !.next_state = Some("Options")]
    ELSE w

leaderboard_system(w, in) ==
    IF "Escape" \in in.keys THEN [w EXCEPT !.next_state = Some("MainMenu")] ELSE w

\* Space on the game-over screen starting the next run at once
handle_game_over_restart(w, in) ==
    IF "Space" \in in.keys THEN [w EXCEPT !.next_state = Some("Playing")] ELSE w

handle_game_over(w, in) ==
    IF "Space" \in in.keys THEN [w EXCEPT !.next_state = Some("MainMenu")] ELSE w

handle_victory(w, in) ==
    IF "Space" \in in.keys THEN [w EXCEPT !.next_state = Some("MainMenu")] ELSE w


\* ---------------------------------------------------------- Playing systems
\* the bird as setup_level spawns it and as a reset or a respawn leaves it:
\* velocity 0 at y = 0. velocity is in pixels a second, y in 1/25 pixel.
Bird_new == [velocity |-> 0, y |-> 0]

\* handle_escape_in_checkpoint without the test of the mode
handle_escape_in_checkpoint_any_mode(w, in) ==
    IF "Escape" \in in.keys
    THEN [w EXCEPT !.next_state = Some("MainMenu")]
    ELSE w

handle_escape_in_checkpoint(w, in) ==
    IF w.settings.selected_mode = "GameMode::Checkpoints" /\ "Escape" \in in.keys
    THEN [w EXCEPT !.next_state = Some("MainMenu")]
    ELSE w

\* update_bird, "Save game data": load, update the profile, write
save_run(w, in, current) ==
    IF IsSome(w.settings.current_slot)
    THEN LET slot_num == Unwrap(w.settings.current_slot)
             save_data == load_save_slot(w.files, slot_num)
             save_slot == MakeSaveSlot(slot_num, save_data, w.settings, current)
         IN  [w EXCEPT !.files = save_to_slot(w.files, save_slot, in.io_ok),
                       !.saveLog = Some([ok |-> in.io_ok,
                                         slot |-> save_slot,
                                         before |-> w.files,
                                         duration |-> w.elapsed])]
    ELSE w

\* update_bird without the respawn of the Checkpoints mode
update_bird_no_respawn(w, in) ==
    IF w.birds # 1 THEN w
    ELSE LET s0 == Unwrap(w.score)
             current == IF in.floor THEN s0.current ELSE s0.current + in.passed
             s1 == [current |-> current,
                    best |-> IF current > s0.best THEN current ELSE s0.best]
             dead == in.floor \/ in.hit
         IN  IF ~dead THEN [w EXCEPT !.score = Some(s1), !.pose = "flying"]
             ELSE [save_run([w EXCEPT !.score = Some(s1), !.pose = "flying"],
                            in, s1.current)
                       EXCEPT !.next_state = Some("GameOver")]

\* update_bird returning on a failed write instead of ignoring it
update_bird_propagates(w, in) ==
    IF w.birds # 1 THEN w
    ELSE LET s0 == Unwrap(w.score)
             current == IF in.floor THEN s0.current ELSE s0.current + in.passed
             s1 == [current |-> current,
                    best |-> IF current > s0.best THEN current ELSE s0.best]
             dead == in.floor \/ in.hit
             saved == save_run([w EXCEPT !.score = Some(s1), !.pose = "flying"],
                               in, s1.current)
         IN  IF ~dead THEN [w EXCEPT !.score = Some(s1), !.pose = "flying"]
             ELSE IF w.settings.selected_mode = "GameMode::Checkpoints" /\ IsSome(w.cp)
                  THEN [w EXCEPT !.score =
                            Some([s1 EXCEPT !.current =
                                      Unwrap(w.cp).last_checkpoint_score]),
                                 !.pose = "origin",
                                 !.bird = Some(Bird_new)]
                  ELSE IF IsSome(saved.saveLog) /\ ~Unwrap(saved.saveLog).ok
                       THEN saved
                       ELSE [saved EXCEPT !.next_state = Some("GameOver")]

\* The bird's velocity and y are kept as a pose: "origin" is velocity 0 and
\* y 0 as spawn and respawn set them, "flying" is whatever the physics of a
\* frame computed.
\* in.floor: y <= -window_height / 2 after the position update;
\* in.passed: unscored top pipes left of the bird that the pipe loop reaches;
\* in.hit: the loop reaches a pipe whose box contains the bird.
update_bird(w, in) ==
    IF w.birds # 1 THEN w
    ELSE LET s0 == Unwrap(w.score)
             current == IF in.floor THEN s0.current ELSE s0.current + in.passed
             s1 == [current |-> current,
                    best |-> IF current > s0.best THEN current ELSE s0.best]
             dead == in.floor \/ in.hit
         IN  IF ~dead THEN [w EXCEPT !.score = Some(s1), !.pose = "flying"]
             ELSE IF w.settings.selected_mode = "GameMode::Checkpoints" /\ IsSome(w.cp)
                  THEN [w EXCEPT !.score =
                            Some([s1 EXCEPT !.current =
                                      Unwrap(w.cp).last_checkpoint_score]),
                                 !.pose = "origin",
                                 !.bird = Some(Bird_new)]
                  ELSE [save_run([w EXCEPT !.score = Some(s1), !.pose = "flying"],
                                 in, s1.current)
                            EXCEPT !.next_state = Some("GameOver")]

\* update_time_attack ending the run only below zero
update_time_attack_below_zero(w, in) ==
    IF w.settings.selected_mode # "GameMode::TimeAttack" THEN w
    ELSE IF ~IsSome(w.timer) THEN w
    ELSE LET remaining == Unwrap(w.timer).remaining - in.delta
             w1 == [w EXCEPT !.timer = Some([remaining |-> remaining])]
         IN  IF remaining < 0
             THEN [w1 EXCEPT !.next_state = Some("GameOver")]
             ELSE w1

update_time_attack(w, in) ==
    IF w.settings.selected_mode # "GameMode::TimeAttack" THEN w
    ELSE IF ~IsSome(w.timer) THEN w
    ELSE LET remaining == Unwrap(w.timer).remaining - in.delta
             w1 == [w EXCEPT !.timer = Some([remaining |-> remaining])]
         IN  IF remaining <= 0
             THEN [w1 EXCEPT !.next_state = Some("GameOver")]
             ELSE w1

update_checkpoints(w, in) ==
    IF w.settings.selected_mode # "GameMode::Checkpoints" THEN w
    ELSE IF ~IsSome(w.cp) THEN w
    ELSE LET c == Unwrap(w.cp)
             current == Unwrap(w.score).current
         IN  IF ~c.completed /\ current >= target_score(c)
             THEN LET c1 == [c EXCEPT !.last_checkpoint_score = target_score(c)]
                  IN  IF is_final_checkpoint(c1)
                      THEN [w EXCEPT !.cp = Some([c1 EXCEPT !.completed = TRUE]),
                                     !.next_state = Some("Victory")]
                      ELSE [w EXCEPT !.cp = Some(
                                [c1 EXCEPT !.current_checkpoint_index = @ + 1])]
             ELSE w

\* --------------------------------------------------------------- obstacles
\* difficulty_tuning with the products the systems use: gravity is
\* GRAVITY * gravity_mult and flap is FLAP_FORCE * flap_mult, in pixels a
\* second (squared); scroll_speed and vertical_offset are in tenths, gap_size
\* in hundredths
difficulty_tuning(difficulty) ==
    CASE difficulty = "Difficulty::Easy" ->
            [gap_size |-> 3250, scroll_speed |-> 1275, gravity |-> 1500,
             flap |-> 600, vertical_offset |-> 56]
      [] difficulty = "Difficulty::Normal" ->
            [gap_size |-> 2500, scroll_speed |-> 1500, gravity |-> 2000,
             flap |-> 500, vertical_offset |-> 80]
      [] difficulty = "Difficulty::Hard" ->
            [gap_size |-> 1875, scroll_speed |-> 1875, gravity |-> 2600,
             flap |-> 525, vertical_offset |-> 96]

\* get_centered_pipe_position(tuning.gap_size): (144 / 2 + gap) * 4 with the
\* gap of the difficulty (25 * 1.3, 25, 25 * 0.75)
get_centered_pipe_position_no_gap(difficulty) ==
    (OBSTACLE_HEIGHT * PIXEL_RATIO) \div 2

get_centered_pipe_position(difficulty) ==
    CASE difficulty = "Difficulty::Easy" -> 418
      [] difficulty = "Difficulty::Normal" -> 388
      [] difficulty = "Difficulty::Hard" -> 363

\* generate_offset: the whole numbers of pixels among the values of
\* rand.gen_range(-vertical_offset..vertical_offset) * PIXEL_RATIO
generate_offset(difficulty) ==
    LET vertical_offset == difficulty_tuning(difficulty).vertical_offset
    IN  { o \in (0 - 10 * PIXEL_RATIO) .. (10 * PIXEL_RATIO) :
            /\ 0 - vertical_offset * PIXEL_RATIO <= 10 * o
            /\ 10 * o < vertical_offset * PIXEL_RATIO }

\* values of generate_offset that every difficulty can draw
Offsets == { 0 - 16, 16 }

\* the draws of one spawn_obstacles call: one representative sequence
SpawnOffsets == << 0 - 16, 16, 0 - 16, 16, 0 - 16 >>

spawn_obstacle(x, y, pipe_direction) ==
    [pipe_direction |-> pipe_direction, scored |-> FALSE, x |-> x, y |-> y]

\* spawn_obstacles, one turn of the loop: the pair i with the offset drawn
spawn_pair(i, y_offset, difficulty) ==
    LET x_pos == WINDOW_WIDTH \div 2 + OBSTACLE_SPACING * PIXEL_RATIO * i
        c == get_centered_pipe_position(difficulty)
    IN  << spawn_obstacle(x_pos, c + y_offset, 1),
           spawn_obstacle(x_pos, (0 - c) + y_offset, 0 - 1) >>

RECURSIVE spawn_obstacles_from(_, _)
spawn_obstacles_from(i, difficulty) ==
    IF i >= OBSTACLE_AMOUNT THEN << >>
    ELSE spawn_pair(i, SpawnOffsets[i + 1], difficulty)
             \o spawn_obstacles_from(i + 1, difficulty)

spawn_obstacles(difficulty) == spawn_obstacles_from(0, difficulty)

\* ---- the Playing systems on the pipes' positions
\* in.scroll: time.delta_secs() * tuning.scroll_speed, in pixels;
\* in.top, in.bottom: the value generate_offset returns for a recycled pipe of
\* that direction
update_obstacles_keeps_scored(w, in) ==
    [w EXCEPT !.obstacles =
        [i \in DOMAIN w.obstacles |->
            LET o == w.obstacles[i]
                x == o.x - in.scroll
            IN  IF x + (OBSTACLE_WIDTH * PIXEL_RATIO) \div 2 < 0 - WINDOW_WIDTH \div 2
                THEN [o EXCEPT
                        !.x = x + OBSTACLE_AMOUNT * OBSTACLE_SPACING * PIXEL_RATIO,
                        !.y = get_centered_pipe_position(w.settings.selected_difficulty)
                                  * o.pipe_direction
                              + (IF o.pipe_direction = 1 THEN in.top ELSE in.bottom)]
                ELSE [o EXCEPT !.x = x]]]

\* update_obstacles, the pipe o that left the window at x, with the offset
\* drawn for it
recycle(o, x, difficulty, y_offset) ==
    [o EXCEPT !.x = x + OBSTACLE_AMOUNT * OBSTACLE_SPACING * PIXEL_RATIO,
              !.y = get_centered_pipe_position(difficulty) * o.pipe_direction
                        + y_offset,
              !.scored = FALSE]

update_obstacles(w, in) ==
    [w EXCEPT !.obstacles =
        [i \in DOMAIN w.obstacles |->
            LET o == w.obstacles[i]
                x == o.x - in.scroll
            IN  IF x + (OBSTACLE_WIDTH * PIXEL_RATIO) \div 2 < 0 - WINDOW_WIDTH \div 2
                THEN recycle(o, x, w.settings.selected_difficulty,
                             IF o.pipe_direction = 1 THEN in.top ELSE in.bottom)
                ELSE [o EXCEPT !.x = x]]]

\* the pipe loop counting the bottom pipes as well
pipe_loop_both_score(w, in) ==
    LET hit == in.hit /\ \E i \in DOMAIN w.obstacles :
                   w.obstacles[i].x < (OBSTACLE_WIDTH * PIXEL_RATIO) \div 2
                   /\ 0 - w.obstacles[i].x < (OBSTACLE_WIDTH * PIXEL_RATIO) \div 2
        reached == IF hit /\ in.early THEN { }
                   ELSE { i \in DOMAIN w.obstacles :
                            /\ ~w.obstacles[i].scored
                            /\ 0 > w.obstacles[i].x }
    IN  [obstacles |-> [i \in DOMAIN w.obstacles |->
                          IF i \in reached
                          THEN [w.obstacles[i] EXCEPT !.scored = TRUE]
                          ELSE w.obstacles[i]],
         passed |-> Cardinality(reached),
         hit |-> hit]

\* update_bird's loop over the pipes, the bird at x = 0. in.hit: the bird's y
\* is within a pipe's height of the pipes it is level with, so it hits when
\* one is within half a pipe's width; in.early: the query reaches that pipe
\* before the pipes that would score.
pipe_loop(w, in) ==
    LET hit == in.hit /\ \E i \in DOMAIN w.obstacles :
                   w.obstacles[i].x < (OBSTACLE_WIDTH * PIXEL_RATIO) \div 2
                   /\ 0 - w.obstacles[i].x < (OBSTACLE_WIDTH * PIXEL_RATIO) \div 2
        reached == IF hit /\ in.early THEN { }
                   ELSE { i \in DOMAIN w.obstacles :
                            /\ ~w.obstacles[i].scored
                            /\ 0 > w.obstacles[i].x
                            /\ w.obstacles[i].pipe_direction = 1 }
    IN  [obstacles |-> [i \in DOMAIN w.obstacles |->
                          IF i \in reached
                          THEN [w.obstacles[i] EXCEPT !.scored = TRUE]
                          ELSE w.obstacles[i]],
         passed |-> Cardinality(reached),
         hit |-> hit]

\* update_bird with the outcome of the pipe loop taken from the pipes
update_bird_on_pipes(w, in) ==
    IF w.birds # 1 THEN w
    ELSE IF in.floor THEN update_bird(w, [in EXCEPT !.hit = FALSE, !.passed = 0])
    ELSE LET r == pipe_loop(w, in)
         IN  update_bird([w EXCEPT !.obstacles = r.obstacles],
                         [in EXCEPT !.hit = r.hit, !.passed = r.passed])

\* ---- the bird's flight
\* time.delta_secs() of a frame is a number of ticks of TICK_NUM / TICK_DEN
\* seconds; the bird's y is kept in units of 1 / TICK_DEN pixel
TICK_NUM == 2
TICK_DEN == 25

\* time.delta_secs() * tuning.scroll_speed, in pixels (whole for Normal and
\* Hard)
scroll_of(ticks, difficulty) ==
    (ticks * TICK_NUM * difficulty_tuning(difficulty).scroll_speed) \div (10 * TICK_DEN)

\* fly with no gravity
fly_weightless(b, in, tuning) ==
    LET velocity == IF "Space" \in in.keys THEN tuning.flap ELSE b.velocity
    IN  [velocity |-> velocity, y |-> b.y + velocity * in.ticks * TICK_NUM]

\* update_bird, input and physics: Space sets the velocity, gravity lowers it,
\* and the lowered velocity moves the bird
fly(b, in, tuning) ==
    LET flapped == IF "Space" \in in.keys THEN tuning.flap ELSE b.velocity
        velocity == flapped - (in.ticks * TICK_NUM * tuning.gravity) \div TICK_DEN
    IN  [velocity |-> velocity, y |-> b.y + velocity * in.ticks * TICK_NUM]

\* the box test with its bounds included
in_box_closed(o, y) ==
    /\ o.y * TICK_DEN - y <= ((OBSTACLE_HEIGHT * PIXEL_RATIO) \div 2) * TICK_DEN
    /\ y - o.y * TICK_DEN <= ((OBSTACLE_HEIGHT * PIXEL_RATIO) \div 2) * TICK_DEN
    /\ o.x <= (OBSTACLE_WIDTH * PIXEL_RATIO) \div 2
    /\ 0 - o.x <= (OBSTACLE_WIDTH * PIXEL_RATIO) \div 2

\* the bird's centre at height y (x = 0) is strictly inside the pipe's box
in_box(o, y) ==
    /\ o.y * TICK_DEN - y < ((OBSTACLE_HEIGHT * PIXEL_RATIO) \div 2) * TICK_DEN
    /\ y - o.y * TICK_DEN < ((OBSTACLE_HEIGHT * PIXEL_RATIO) \div 2) * TICK_DEN
    /\ o.x < (OBSTACLE_WIDTH * PIXEL_RATIO) \div 2
    /\ 0 - o.x < (OBSTACLE_WIDTH * PIXEL_RATIO) \div 2

\* update_bird's loop over the pipes with the bird at height y. The loop ends
\* at the pipe that is hit, after that pipe's own scoring test; in.early: the
\* query yields the hit pipe before the other pipes.
pipe_loop_at(w, in, y) ==
    LET hits == { i \in DOMAIN w.obstacles : in_box(w.obstacles[i], y) }
        passed == { i \in DOMAIN w.obstacles :
                      /\ ~w.obstacles[i].scored
                      /\ 0 > w.obstacles[i].x
                      /\ w.obstacles[i].pipe_direction = 1 }
        reached == IF hits # { } /\ in.early THEN passed \cap hits ELSE passed
    IN  [obstacles |-> [i \in DOMAIN w.obstacles |->
                          IF i \in reached
                          THEN [w.obstacles[i] EXCEPT !.scored = TRUE]
                          ELSE w.obstacles[i]],
         passed |-> Cardinality(reached),
         hit |-> hits # { }]

\* update_bird with the bird's velocity and height followed: the floor test
\* and the pipe loop are made on the height the position update gives
update_bird_flying(w, in) ==
    IF w.birds # 1 THEN w
    ELSE LET b == fly(Unwrap(w.bird), in,
                      difficulty_tuning(w.settings.selected_difficulty))
             w1 == [w EXCEPT !.bird = Some(b)]
         IN  IF b.y <= 0 - (WINDOW_HEIGHT \div 2) * TICK_DEN
             THEN update_bird(w1, [in EXCEPT !.floor = TRUE, !.hit = FALSE,
                                              !.passed = 0])
             ELSE LET r == pipe_loop_at(w1, in, b.y)
                  IN  update_bird([w1 EXCEPT !.obstacles = r.obstacles],
                                  [in EXCEPT !.floor = FALSE, !.hit = r.hit,
                                             !.passed = r.passed])

PlayingSystems ==
    { "update_bird", "update_time_attack", "update_checkpoints",
      "handle_escape_in_checkpoint" }

RunSystem(name, w, in) ==
    CASE name = "update_bird" -> update_bird(w, in)
      [] name = "update_time_attack" -> update_time_attack(w, in)
      [] name = "update_checkpoints" -> update_checkpoints(w, in)
      [] name = "handle_escape_in_checkpoint" -> handle_escape_in_checkpoint(w, in)
      [] name = "save_select_system" -> save_select_system(w, in)
      [] name = "refresh_save_select_ui" -> refresh_save_select_ui(w, in)
      [] name = "update_obstacles" -> update_obstacles(w, in)
      [] name = "update_bird_on_pipes" -> update_bird_on_pipes(w, in)
      [] name = "update_bird_flying" -> update_bird_flying(w, in)

RECURSIVE RunSystems(_, _, _)
\* the systems of one Update, in the order the scheduler picked
RunSystems(order, w, in) ==
    IF order = << >> THEN w
    ELSE RunSystems(Tail(order), RunSystem(Head(order), w, in), in)

\* every order of the systems in S, as sequences
Orders(S) ==
    { o \in [1 .. Cardinality(S) -> S] : \A i, j \in DOMAIN o : i # j => o[i] # o[j] }

\* the systems that do not return at once in this mode; the others leave the
\* world as it is wherever the scheduler puts them
ActiveSystems(mode) ==
    CASE mode = "GameMode::Endless" -> { "update_bird" }
      [] mode = "GameMode::TimeAttack" -> { "update_bird", "update_time_attack" }
      [] mode = "GameMode::Checkpoints" ->
            { "update_bird", "update_checkpoints", "handle_escape_in_checkpoint" }

PlayingOrders(mode) == Orders(ActiveSystems(mode))
SaveSelectOrders == Orders({ "save_select_system", "refresh_save_select_ui" })

\* the Playing systems with the pipes' positions kept
ObstacleOrders(mode) ==
    Orders((ActiveSystems(mode) \ { "update_bird" })
               \cup { "update_bird_on_pipes", "update_obstacles" })

\* the Playing systems with the bird's flight and the pipes' positions kept;
\* Escape is not pressed in these frames and handle_escape_in_checkpoint,
\* which returns at once, is left out
FlightOrders(mode) ==
    Orders((ActiveSystems(mode) \ { "update_bird", "handle_escape_in_checkpoint" })
               \cup { "update_bird_flying", "update_obstacles" })

\* ------------------------------------------------------------- leaderboard
LeaderboardEntry(save) ==
    [name |-> save.profile.name,
     score |-> save.score,
     mode |-> save.mode,
     difficulty |-> save.difficulty]

RECURSIVE sort_by_score_ties_swapped(_)
\* a sort that puts a later entry before the earlier entries of its score
sort_by_score_ties_swapped(entries) ==
    IF entries = << >> THEN << >>
    ELSE LET n == Len(entries)
             e == entries[n]
             sorted == sort_by_score_ties_swapped(SubSeq(entries, 1, n - 1))
             before == SelectSeq(sorted, LAMBDA x : x.score > e.score)
             after == SelectSeq(sorted, LAMBDA x : ~(x.score > e.score))
         IN  before \o << e >> \o after

RECURSIVE sort_by_score(_)
\* entries.sort_by(|a, b| b.score.cmp(&a.score)): descending by score and
\* stable, so entries of one score keep the order they were pushed in
sort_by_score(entries) ==
    IF entries = << >> THEN << >>
    ELSE LET n == Len(entries)
             e == entries[n]
             sorted == sort_by_score(SubSeq(entries, 1, n - 1))
             before == SelectSeq(sorted, LAMBDA x : x.score >= e.score)
             after == SelectSeq(sorted, LAMBDA x : ~(x.score >= e.score))
         IN  before \o << e >> \o after

RECURSIVE push_entries(_, _)
\* load_leaderboard, the loop over the slots 1..=3
push_entries(fs, slot) ==
    IF slot > 3 THEN << >>
    ELSE LET save == load_save_slot(fs, slot)
         IN  (IF IsSome(save) THEN << LeaderboardEntry(Unwrap(save)) >> ELSE << >>)
             \o push_entries(fs, slot + 1)

load_leaderboard(fs) == sort_by_score(push_entries(fs, 1))

\* the entries are read when the screen is entered and shown until it is left
setup_leaderboard_ui(w) == [w EXCEPT !.board = load_leaderboard(w.files)]

cleanup_leaderboard(w) == [w EXCEPT !.board = << >>]

\* ------------------------------------------------ OnEnter / OnExit systems
\* setup_level keeping the Score resource of the run before
setup_level_keeps_score(w) ==
    LET w1 == IF IsSome(w.score) THEN w ELSE [w EXCEPT !.score = Some(DefaultScore)]
        w2 == IF w.settings.selected_mode = "GameMode::TimeAttack"
              THEN [w1 EXCEPT !.timer = Some([remaining |-> TIME_ATTACK_SECONDS])]
              ELSE w1
        w3 == IF w.settings.selected_mode = "GameMode::Checkpoints"
              THEN [w2 EXCEPT !.cp =
                        Some(CheckpointsState_new(w.settings.selected_difficulty))]
              ELSE w2
    IN  [w3 EXCEPT !.birds = @ + 1,
                   !.pose = "origin",
                   !.bird = Some(Bird_new),
                   !.obstacles = @ \o spawn_obstacles(w.settings.selected_difficulty)]

setup_level(w) ==
    LET w1 == [w EXCEPT !.score = Some(DefaultScore)]
        w2 == IF w.settings.selected_mode = "GameMode::TimeAttack"
              THEN [w1 EXCEPT !.timer = Some([remaining |-> TIME_ATTACK_SECONDS])]
              ELSE w1
        w3 == IF w.settings.selected_mode = "GameMode::Checkpoints"
              THEN [w2 EXCEPT !.cp =
                        Some(CheckpointsState_new(w.settings.selected_difficulty))]
              ELSE w2
    IN  [w3 EXCEPT !.birds = @ + 1,
                   !.pose = "origin",
                   !.bird = Some(Bird_new),
                   !.obstacles = @ \o spawn_obstacles(w.settings.selected_difficulty)]

\* the obstacles of setup_level are despawned and spawned again
reset_on_play_start(w) ==
    [w EXCEPT !.score = Some([Unwrap(w.score) EXCEPT !.current = 0]),
              !.pose = IF w.birds = 1 THEN "origin" ELSE @,
              !.bird = IF w.birds = 1 THEN Some(Bird_new) ELSE @,
              !.obstacles = spawn_obstacles(w.settings.selected_difficulty)]

\* cleanup_game leaving the bird of the run behind
cleanup_game_keeps_bird(w) ==
    [w EXCEPT !.obstacles = << >>, !.timer = None, !.cp = None]

\* cleanup_game without the removal of the two mode resources
cleanup_game_keeps_mode_state(w) ==
    [w EXCEPT !.birds = 0, !.pose = "none", !.bird = None, !.obstacles = << >>]

cleanup_game(w) ==
    [w EXCEPT !.birds = 0, !.pose = "none", !.bird = None, !.obstacles = << >>,
              !.timer = None, !.cp = None]

OnExit(s, w) ==
    IF s = "Playing" THEN cleanup_game(w)
    ELSE IF s = "Leaderboard" THEN cleanup_leaderboard(w)
    ELSE w

OnEnter(s, w) ==
    IF s = "Playing" THEN reset_on_play_start(setup_level(w))
    ELSE IF s = "Leaderboard" THEN setup_leaderboard_ui(w)
    ELSE w

\* ------------------------------------------------------------------ inputs
NoInput ==
    [keys |-> {}, ctrl |-> FALSE, io_ok |-> TRUE, delta |-> 0,
     floor |-> FALSE, hit |-> FALSE, passed |-> 0]

Keys(K) == { [NoInput EXCEPT !.keys = ks] : ks \in SUBSET K }

Deltas == { MaxDelta - 10, MaxDelta }

\* the outcomes of the floor test and of the pipe loop of update_bird
Collisions ==
    { [floor |-> TRUE, hit |-> FALSE, passed |-> 0] } \cup
    { [floor |-> FALSE, hit |-> h, passed |-> p] : h \in BOOLEAN, p \in 0 .. 1 }

\* ----------------------------------------------------------------- actions
Idle == next_state = None

Others == UNCHANGED << state, runs, flaps, released, avgProfile, avgSum >>

Quiet(w) == [w EXCEPT !.saveLog = None]

\* the StateTransition schedule: apply the pending NextState
StateTransition ==
    /\ IsSome(next_state)
    /\ LET to == Unwrap(next_state)
           w == OnEnter(to, OnExit(state, [Quiet(World) EXCEPT !.next_state = None]))
       IN  /\ state' = to
           /\ Commit([w EXCEPT !.elapsed = 0])
           /\ runs' = IF to = "Playing" THEN runs + 1 ELSE runs
           /\ flaps' = IF to = "Playing" THEN 0 ELSE flaps
           /\ released' = (to # "Playing" /\ released)
    /\ UNCHANGED << picks, avgProfile, avgSum >>

MainMenuFrame(runCap) ==
    /\ state = "MainMenu" /\ Idle
    /\ \E in \in Keys({ "Space", "KeyO", "KeyL" }) :
          LET w == main_menu_system(Quiet(World), in)
          IN  /\ w.next_state = Some("Playing") => runs < runCap
              /\ Commit(w)
    /\ Others /\ UNCHANGED picks

OptionsFrame ==
    /\ state = "Options" /\ Idle
    /\ \E in \in Keys({ "Escape", "Digit1", "Digit2", "Digit3", "Digit4", "Digit5" }) :
          Commit(options_system(Quiet(World), in))
    /\ Others /\ UNCHANGED picks

SaveSelectFrame(runCap) ==
    /\ state = "SaveSelect" /\ Idle
    /\ \E in0 \in Keys({ "Escape", "Digit1", "Digit2", "Digit3" }),
          ctrl \in BOOLEAN, io_ok \in BOOLEAN, order \in SaveSelectOrders :
          LET in == [in0 EXCEPT !.ctrl = ctrl, !.io_ok = io_ok]
              w == RunSystems(order, Quiet(World), in)
          IN  /\ w.next_state = Some("Playing") => runs < runCap
              /\ Commit(w)
    /\ Others /\ UNCHANGED picks

\* a picker frame; a selection that changes the setting uses up one pick
Picker(w, pickCap) ==
    /\ w.settings # settings => picks < pickCap
    /\ picks' = IF w.settings # settings THEN picks + 1 ELSE picks
    /\ Commit(w)

ModeSelectFrame(pickCap) ==
    /\ state = "ModeSelect" /\ Idle
    /\ \E in \in Keys({ "Escape", "Digit1", "Digit2", "Digit3" }) :
          Picker(mode_select_system(Quiet(World), in), pickCap)
    /\ Others

DifficultySelectFrame(pickCap) ==
    /\ state = "DifficultySelect" /\ Idle
    /\ \E in \in Keys({ "Escape", "Digit1", "Digit2", "Digit3" }) :
          Picker(difficulty_select_system(Quiet(World), in), pickCap)
    /\ Others

ThemeSelectFrame(pickCap) ==
    /\ state = "ThemeSelect" /\ Idle
    /\ \E in \in Keys({ "Escape", "Digit1", "Digit2", "Digit3" }) :
          Picker(theme_select_system(Quiet(World), in), pickCap)
    /\ Others

SkinSelectFrame(pickCap) ==
    /\ state = "SkinSelect" /\ Idle
    /\ \E in \in Keys({ "Escape", "Digit1", "Digit2", "Digit3", "Digit4" }) :
          Picker(skin_select_system(Quiet(World), in), pickCap)
    /\ Others

LeaderboardFrame ==
    /\ state = "Leaderboard" /\ Idle
    /\ \E in \in Keys({ "Escape" }) : Commit(leaderboard_system(Quiet(World), in))
    /\ Others /\ UNCHANGED picks

GameOverFrame ==
    /\ state = "GameOver" /\ Idle
    /\ \E in \in Keys({ "Space" }) : Commit(handle_game_over(Quiet(World), in))
    /\ Others /\ UNCHANGED picks

VictoryFrame ==
    /\ state = "Victory" /\ Idle
    /\ \E in \in Keys({ "Space" }) : Commit(handle_victory(Quiet(World), in))
    /\ Others /\ UNCHANGED picks

\* one Update of the Playing state; the caps bound score.current
PlayingFrame(cap, cpCap) ==
    /\ state = "Playing" /\ Idle
    /\ \E in0 \in Keys({ "Escape" }), delta \in Deltas, c \in Collisions,
          io_ok \in BOOLEAN, order \in PlayingOrders(settings.selected_mode) :
          LET in == [in0 EXCEPT !.delta = delta, !.floor = c.floor, !.hit = c.hit,
                                !.passed = c.passed, !.io_ok = io_ok]
              w0 == [Quiet(World) EXCEPT
                        !.elapsed = Min(elapsed + delta, MaxElapsed)]
          IN  /\ c.passed > 0 =>
                    Unwrap(score).current <
                        IF settings.selected_mode = "GameMode::Checkpoints"
                        THEN cpCap ELSE cap
              /\ io_ok \/ c.floor \/ c.hit
              /\ Commit(RunSystems(order, w0, in))
    /\ Others /\ UNCHANGED picks

\* pixels scrolled in a frame: a quarter and a half of the pipes' distance
Scrolls == { OBSTACLE_SPACING, 2 * OBSTACLE_SPACING }

\* a frame of Playing with the pipes' positions kept
ObstacleFrame(cap) ==
    /\ state = "Playing" /\ Idle
    /\ \E scroll \in Scrolls, floor \in BOOLEAN,
          hit \in BOOLEAN, early \in BOOLEAN, top \in Offsets, bottom \in Offsets,
          order \in ObstacleOrders(settings.selected_mode) :
          LET in == [keys |-> { }, ctrl |-> FALSE, io_ok |-> TRUE,
                     delta |-> MaxDelta, floor |-> floor, hit |-> hit, passed |-> 0,
                     scroll |-> scroll, early |-> early, top |-> top,
                     bottom |-> bottom]
              w0 == [Quiet(World) EXCEPT
                        !.elapsed = Min(elapsed + MaxDelta, MaxElapsed)]
          IN  /\ hit \/ ~early
              /\ \E w \in { RunSystems(order, w0, in) } :
                    /\ Unwrap(w.score).current > Unwrap(score).current =>
                           Unwrap(score).current < cap
                    /\ Commit(w)
    /\ Others /\ UNCHANGED picks

\* ticks of a frame: 0.08 s and 0.16 s
Ticks == { 1, 2 }

\* a frame of Playing with the bird's flight and the pipes' positions kept,
\* starting with the bird b. space is the state of the Space key the frame
\* finds and ticks are its lengths. in.delta is the whole seconds the
\* countdown of a timed run loses in the frame; offs are the draws of
\* generate_offset for a recycled top and bottom pipe.
FlightFrom(b, cap, space, ticks, offs) ==
    \E t \in ticks, early \in BOOLEAN, off \in offs,
       seconds \in IF settings.selected_mode = "GameMode::TimeAttack"
                   THEN 0 .. 1 ELSE { 0 },
       order \in FlightOrders(settings.selected_mode) :
       LET in == [keys |-> IF space THEN { "Space" } ELSE { }, ctrl |-> FALSE,
                  io_ok |-> TRUE, delta |-> seconds, floor |-> FALSE,
                  hit |-> FALSE, passed |-> 0,
                  scroll |-> scroll_of(t, settings.selected_difficulty),
                  early |-> early, top |-> off[1], bottom |-> off[2],
                  ticks |-> t]
           w0 == [Quiet(World) EXCEPT
                     !.elapsed = Min(elapsed + seconds, MaxElapsed),
                     !.bird = Some(b)]
       IN  \E w \in { RunSystems(order, w0, in) } :
              /\ Unwrap(w.score).current > Unwrap(score).current =>
                     Unwrap(score).current < cap
              /\ Commit(w)

\* a frame of a timed run whose bird is followed from frame to frame; the
\* player presses Space in at most flapCap frames of the run
FallFrame(cap, flapCap) ==
    /\ state = "Playing" /\ Idle
    /\ settings.selected_mode = "GameMode::TimeAttack"
    /\ \E space \in IF flaps < flapCap THEN BOOLEAN ELSE { FALSE } :
          /\ flaps' = IF space THEN flaps + 1 ELSE flaps
          /\ FlightFrom(Unwrap(bird), cap, space, Ticks, { << 16, 0 - 16 >> })
    /\ UNCHANGED << state, runs, picks, released, avgProfile, avgSum >>

\* the player of an Endless or Checkpoints run holds the bird in the
\* openings: Space is pressed in the frames that find the bird falling below
\* the middle of the window
Hover(b) == b.y < 0 /\ b.velocity < 0

\* a frame of one tick of an Endless or Checkpoints run whose bird is followed
\* from frame to frame; the player lets go of Space for good in any frame that
\* asks for a press, and in an Endless run with holdCap points at the latest
HoverFrame(cap, holdCap) ==
    /\ state = "Playing" /\ Idle
    /\ settings.selected_mode # "GameMode::TimeAttack"
    /\ \E lets_go \in
             IF ~Hover(Unwrap(bird)) \/ released THEN { FALSE }
             ELSE IF /\ settings.selected_mode = "GameMode::Endless"
                     /\ Unwrap(score).current >= holdCap
                  THEN { TRUE }
                  ELSE BOOLEAN :
          /\ released' = (released \/ lets_go)
          /\ FlightFrom(Unwrap(bird), cap,
                        ~(released \/ lets_go) /\ Hover(Unwrap(bird)),
                        { 1 }, { << 16, 0 - 16 >> })
    /\ UNCHANGED << state, runs, picks, flaps, avgProfile, avgSum >>

\* heights of the bird after the position update, in pixels: the floor and
\* just above it, the edges of the pipes' boxes at Hard with the offsets -16
\* and 16, the middle of the opening, and above the top pipes
HeightsAfter ==
    { h * TICK_DEN : h \in { 0 - 300, 0 - 91, 0 - 59, 0, 59, 91, 635, 667, 700 } }
        \cup { 2 - 300 * TICK_DEN }

\* birds two ticks after a flap at Hard that one more tick takes to these
\* heights
Flights ==
    LET t == difficulty_tuning("Difficulty::Hard")
        g == (TICK_NUM * t.gravity) \div TICK_DEN
    IN  { [velocity |-> t.flap - 2 * g, y |-> h - (t.flap - 3 * g) * TICK_NUM] :
              h \in HeightsAfter }

\* a frame of Playing at a height of the bird that its flight can reach; the
\* flight between the frames is not followed
HeightFrame(cap) ==
    /\ state = "Playing" /\ Idle
    /\ \E b \in Flights :
          FlightFrom(b, cap, FALSE, Ticks, { << 16, 0 - 16 >> })
    /\ UNCHANGED << state, runs, picks, flaps, released, avgProfile, avgSum >>

\* ------------------------------------------------------------ specification
InitFiles ==
    { [k \in SLOTS |-> NoFile],
      [k \in SLOTS |-> IF k = 2 THEN Garbage ELSE NoFile] }

Init ==
    /\ state = "MainMenu"
    /\ next_state = None
    /\ settings = DefaultSettings
    /\ origin = "MainMenu"
    /\ flag = FALSE
    /\ files \in InitFiles
    /\ score = None
    /\ timer = None
    /\ cp = None
    /\ birds = 0
    /\ pose = "none"
    /\ bird = None
    /\ flaps = 0
    /\ released = FALSE
    /\ obstacles = << >>
    /\ board = << >>
    /\ saveLog = None
    /\ elapsed = 0
    /\ runs = 0
    /\ picks = 0
    /\ avgProfile = NewProfile(1)
    /\ avgSum = 0

Next ==
    \/ StateTransition
    \/ MainMenuFrame(MaxRuns)
    \/ OptionsFrame
    \/ SaveSelectFrame(MaxRuns)
    \/ ModeSelectFrame(MaxPicks)
    \/ DifficultySelectFrame(MaxPicks)
    \/ ThemeSelectFrame(MaxPicks)
    \/ SkinSelectFrame(MaxPicks)
    \/ LeaderboardFrame
    \/ GameOverFrame
    \/ VictoryFrame
    \/ PlayingFrame(MaxScore, MaxCheckpointScore)

Spec == Init /\ [][Next]_vars


\* ---------------------------------------------- consecutive runs of a slot
\* The main menu after the player chose slot 1 (from Options), a mode and a
\* difficulty: states Spec reaches once two picks are allowed.
ReadySettings(mode, difficulty) ==
    [DefaultSettings EXCEPT !.current_slot = Some(1),
                            !.selected_mode = mode,
                            !.selected_difficulty = difficulty]

InitRuns ==
    /\ state = "MainMenu"
    /\ next_state = None
    /\ \/ settings = DefaultSettings /\ origin = "MainMenu"
       \/ /\ settings \in
                { ReadySettings("GameMode::Endless", "Difficulty::Normal"),
                  ReadySettings("GameMode::TimeAttack", "Difficulty::Normal"),
                  ReadySettings("GameMode::Checkpoints", "Difficulty::Easy") }
          /\ origin = "Options"
    /\ flag = FALSE
    /\ files \in InitFiles
    /\ score = None
    /\ timer = None
    /\ cp = None
    /\ birds = 0
    /\ pose = "none"
    /\ bird = None
    /\ flaps = 0
    /\ released = FALSE
    /\ obstacles = << >>
    /\ board = << >>
    /\ saveLog = None
    /\ elapsed = 0
    /\ runs = 0
    /\ picks = 0
    /\ avgProfile = NewProfile(1)
    /\ avgSum = 0

\* no setting is changed in a picker
NextRuns ==
    \/ StateTransition
    \/ MainMenuFrame(MaxSlotRuns)
    \/ OptionsFrame
    \/ SaveSelectFrame(MaxSlotRuns)
    \/ ModeSelectFrame(0)
    \/ DifficultySelectFrame(0)
    \/ ThemeSelectFrame(0)
    \/ SkinSelectFrame(0)
    \/ LeaderboardFrame
    \/ GameOverFrame
    \/ VictoryFrame
    \/ PlayingFrame(MaxScore, MaxEasyScore)

SpecRuns == InitRuns /\ [][NextRuns]_vars

\* ------------------------------------------------------- checkpoint runs
InitCheckpoints ==
    /\ state = "MainMenu"
    /\ next_state = None
    /\ settings \in { ReadySettings(m, d) : m \in GameMode, d \in Difficulty }
    /\ origin = "Options"
    /\ flag = FALSE
    /\ files = [k \in SLOTS |-> NoFile]
    /\ score = None
    /\ timer = None
    /\ cp = None
    /\ birds = 0
    /\ pose = "none"
    /\ bird = None
    /\ flaps = 0
    /\ released = FALSE
    /\ obstacles = << >>
    /\ board = << >>
    /\ saveLog = None
    /\ elapsed = 0
    /\ runs = 0
    /\ picks = 0
    /\ avgProfile = NewProfile(1)
    /\ avgSum = 0

\* runs to the end of every checkpoint list, started from the main menu
NextCheckpoints ==
    \/ StateTransition
    \/ MainMenuFrame(MaxRuns)
    \/ GameOverFrame
    \/ VictoryFrame
    \/ PlayingFrame(MaxVictoryScore, MaxVictoryScore)

SpecCheckpoints == InitCheckpoints /\ [][NextCheckpoints]_vars

\* ------------------------------------------------- settings in save slots
\* nothing of a run exists before the first run
NoRunYet ==
    /\ score = None
    /\ timer = None
    /\ cp = None
    /\ birds = 0
    /\ pose = "none"
    /\ bird = None
    /\ flaps = 0
    /\ released = FALSE
    /\ obstacles = << >>
    /\ board = << >>
    /\ saveLog = None
    /\ elapsed = 0
    /\ runs = 0
    /\ picks = 0
    /\ avgProfile = NewProfile(1)
    /\ avgSum = 0

PickedSettings(mode, difficulty, theme, skin) ==
    [current_slot |-> Some(1),
     selected_mode |-> mode,
     selected_difficulty |-> difficulty,
     selected_theme |-> theme,
     selected_skin |-> skin]

\* a save file that names a mode the game does not have
BadEnumDoc ==
    [SerializeSaveSlot(MakeSaveSlot(3, None, DefaultSettings, 0))
        EXCEPT !.mode = "Zen"]

\* the record a first run of the slot with this score leaves
FirstRunDoc(slot_num, current) ==
    SerializeSaveSlot(MakeSaveSlot(slot_num, None,
        CASE slot_num = 1 -> PickedSettings("GameMode::Endless", "Difficulty::Easy",
                                            "Theme::Classic", "Skin::Classic")
          [] slot_num = 2 -> PickedSettings("GameMode::TimeAttack", "Difficulty::Hard",
                                            "Theme::Minimal", "Skin::Blue")
          [] slot_num = 3 -> PickedSettings("GameMode::Endless", "Difficulty::Normal",
                                            "Theme::Classic", "Skin::Green"),
        current))

\* slot 1 chosen and the four pickers used; slot 3 empty or unreadable, slot 1
\* empty or holding the record of an earlier session
InitSettings ==
    /\ state = "MainMenu"
    /\ next_state = None
    /\ settings \in
          { PickedSettings("GameMode::Endless", "Difficulty::Easy",
                           "Theme::HighContrast", "Skin::Red"),
            PickedSettings("GameMode::TimeAttack", "Difficulty::Hard",
                           "Theme::Minimal", "Skin::Blue"),
            PickedSettings("GameMode::Endless", "Difficulty::Normal",
                           "Theme::Classic", "Skin::Green") }
    /\ origin = "Options"
    /\ flag = FALSE
    /\ files \in { [k \in SLOTS |-> NoFile],
                   [k \in SLOTS |-> IF k = 3 THEN BadEnumDoc ELSE NoFile],
                   [k \in SLOTS |-> CASE k = 1 -> FirstRunDoc(1, 0)
                                       [] k = 2 -> NoFile
                                       [] k = 3 -> BadEnumDoc] }
    /\ NoRunYet

NextSettings ==
    \/ StateTransition
    \/ MainMenuFrame(MaxRuns)
    \/ OptionsFrame
    \/ SaveSelectFrame(MaxRuns)
    \/ ModeSelectFrame(0)
    \/ DifficultySelectFrame(0)
    \/ ThemeSelectFrame(0)
    \/ SkinSelectFrame(0)
    \/ LeaderboardFrame
    \/ GameOverFrame
    \/ PlayingFrame(MaxScore, MaxScore)

SpecSettings == InitSettings /\ [][NextSettings]_vars

\* -------------------------------------------------------- timed runs
\* Space has been pressed at the main menu in Time Attack
InitTimeAttack ==
    /\ state = "MainMenu"
    /\ next_state = Some("Playing")
    /\ settings \in { ReadySettings("GameMode::TimeAttack", d) : d \in Difficulty }
    /\ origin = "Options"
    /\ flag = FALSE
    /\ files = [k \in SLOTS |-> NoFile]
    /\ NoRunYet

\* one run, from the transition into Playing to the game-over screen
NextTimeAttack ==
    \/ StateTransition
    \/ GameOverFrame
    \/ PlayingFrame(MaxScore, MaxScore)

\* The Update schedule runs every frame while the app runs and the state
\* transition schedule runs before it, so a frame of Playing and a pending
\* transition are not postponed for ever.
SpecTimeAttack ==
    /\ InitTimeAttack
    /\ [][NextTimeAttack]_vars
    /\ WF_vars(PlayingFrame(MaxScore, MaxScore))
    /\ WF_vars(StateTransition)

\* ------------------------------------------------------------ leaderboard
\* every slot empty, unreadable or holding the record of a run
InitLeaderboard ==
    /\ state = "MainMenu"
    /\ next_state = None
    /\ settings = DefaultSettings
    /\ origin = "MainMenu"
    /\ flag = FALSE
    /\ files \in
          { fs \in [SLOTS -> { NoFile, Garbage } \cup
                               { FirstRunDoc(k, c) : k \in SLOTS, c \in 0 .. MaxBoardScore }] :
              \A k \in SLOTS : fs[k].kind = "json" => fs[k].slot_number = k }
    /\ NoRunYet

\* the menus without a run: slots are selected from the options and deleted
NextLeaderboard ==
    \/ StateTransition
    \/ MainMenuFrame(0)
    \/ OptionsFrame
    \/ SaveSelectFrame(0)
    \/ LeaderboardFrame

SpecLeaderboard == InitLeaderboard /\ [][NextLeaderboard]_vars

\* ----------------------------------------------------- runs on the pipes
\* Space has been pressed at the main menu with slot 1 chosen
InitObstacles ==
    /\ state = "MainMenu"
    /\ next_state = Some("Playing")
    /\ settings = ReadySettings("GameMode::Endless", "Difficulty::Hard")
    /\ origin = "Options"
    /\ flag = FALSE
    /\ files = [k \in SLOTS |-> NoFile]
    /\ NoRunYet

\* one run, from the transition into Playing to the game-over screen
NextObstacles ==
    \/ StateTransition
    \/ GameOverFrame
    \/ ObstacleFrame(MaxTrackedScore)

SpecObstacles == InitObstacles /\ [][NextObstacles]_vars

\* ------------------------------------------- runs at the bird's heights
\* one Endless run at Hard in which every frame finds the bird at one of the
\* heights of HeightsAfter
NextHeights ==
    \/ StateTransition
    \/ GameOverFrame
    \/ HeightFrame(MaxHeightScore)

SpecHeights == InitObstacles /\ [][NextHeights]_vars

\* ------------------------------------------------- placing of the pipes
\* the two places that give a pipe its height, applied to every difficulty
\* and every offset: the pair of one turn of spawn_obstacles, and a pipe of
\* it recycled by update_obstacles
InitPlacement ==
    /\ state = "MainMenu"
    /\ next_state = None
    /\ settings \in { ReadySettings("GameMode::Endless", d) : d \in Difficulty }
    /\ origin = "Options"
    /\ flag = FALSE
    /\ files = [k \in SLOTS |-> NoFile]
    /\ NoRunYet

SpawnPair ==
    /\ obstacles = << >>
    /\ \E y_offset \in generate_offset(settings.selected_difficulty) :
          obstacles' = spawn_pair(0, y_offset, settings.selected_difficulty)
    /\ UNCHANGED << state, next_state, settings, origin, flag, files, score,
                    timer, cp, birds, pose, bird, board, saveLog, elapsed, runs,
                    picks, flaps, released, avgProfile, avgSum >>

RecyclePipe ==
    /\ obstacles # << >>
    /\ \E i \in DOMAIN obstacles,
          y_offset \in generate_offset(settings.selected_difficulty) :
          obstacles' =
              [obstacles EXCEPT
                  ![i] = recycle(obstacles[i],
                                 0 - (WINDOW_WIDTH \div 2 + OBSTACLE_WIDTH * PIXEL_RATIO),
                                 settings.selected_difficulty, y_offset)]
    /\ UNCHANGED << state, next_state, settings, origin, flag, files, score,
                    timer, cp, birds, pose, bird, board, saveLog, elapsed, runs,
                    picks, flaps, released, avgProfile, avgSum >>

NextPlacement == SpawnPair \/ RecyclePipe

SpecPlacement == InitPlacement /\ [][NextPlacement]_vars

\* ------------------------------------------------ runs the bird is followed in
\* Space has been pressed at the main menu with slot 1 chosen, for a run of
\* any mode at Normal
InitFall ==
    /\ state = "MainMenu"
    /\ next_state = Some("Playing")
    /\ settings \in { ReadySettings(m, "Difficulty::Normal") : m \in GameMode }
    /\ origin = "Options"
    /\ flag = FALSE
    /\ files = [k \in SLOTS |-> NoFile]
    /\ NoRunYet

\* one run, from the transition into Playing to the screen that ends it
NextFall ==
    \/ StateTransition
    \/ GameOverFrame
    \/ VictoryFrame
    \/ FallFrame(MaxTrackedScore, MaxFlaps)
    \/ HoverFrame(MaxVictoryScore, MaxTrackedScore)

\* what a frame of an Endless or timed run does to the bird: update_bird's
\* input and physics, which no later line of these runs undoes
Fall ==
    /\ state = "Playing" /\ Idle
    /\ settings.selected_mode # "GameMode::Checkpoints"
    /\ \E space \in BOOLEAN, t \in Ticks :
          bird' = Some(fly(Unwrap(bird),
                           [keys |-> IF space THEN { "Space" } ELSE { }, ticks |-> t],
                           difficulty_tuning(settings.selected_difficulty)))

\* The Update schedule runs every frame while the app runs and the state
\* transition schedule runs before it, so a frame of Playing and a pending
\* transition are not postponed for ever. The frames of FallFrame and
\* of HoverFrame in an Endless run are the steps of Fall that change the bird.
SpecFall ==
    /\ InitFall
    /\ [][NextFall]_vars
    /\ WF_bird(Fall)
    /\ WF_vars(StateTransition)

InitAverage ==
    /\ state = "MainMenu"
    /\ next_state = None
    /\ settings = DefaultSettings
    /\ origin = "MainMenu"
    /\ flag = FALSE
    /\ files = [k \in SLOTS |-> NoFile]
    /\ score = None
    /\ timer = None
    /\ cp = None
    /\ birds = 0
    /\ pose = "none"
    /\ bird = None
    /\ flaps = 0
    /\ released = FALSE
    /\ obstacles = << >>
    /\ board = << >>
    /\ saveLog = None
    /\ elapsed = 0
    /\ runs = 0
    /\ picks = 0
    /\ avgProfile = NewProfile(1)
    /\ avgSum = 0

\* update_bird's profile update for one more saved run of the slot
SavedRun ==
    /\ avgProfile.total_games < MaxAvgRuns
    /\ \E current \in 0 .. MaxAvgScore :
          /\ avgProfile' = ProfileAfterRun(avgProfile, current)
          /\ avgSum' = avgSum + current
    /\ UNCHANGED << state, next_state, settings, origin, flag, files, score,
                    timer, cp, birds, pose, bird, obstacles, board, saveLog,
                    elapsed, runs, picks, flaps, released >>

SpecAverage == InitAverage /\ [][SavedRun]_vars


\* ================================================================= claims
\* the record save_to_slot was last called with in this frame, and its slot
LoggedSlot == Unwrap(saveLog).slot
LoggedNumber == Unwrap(saveLog).slot.slot_number

\* the frame that has just requested Playing -> GameOver
GameOverRequested == state = "Playing" /\ next_state = Some("GameOver")

\* ---- C1
\* C1: whenever a frame of Playing requests GameOver (the bird died, or the
\* TimeAttack timer ran out), that frame called save_to_slot for the current
\* slot with a record of the settings and the final score, and a write that
\* succeeded left exactly that record in the slot's file.
C1_EveryGameOverSaves ==
    GameOverRequested =>
        /\ IsSome(saveLog)
        /\ settings.current_slot = Some(LoggedNumber)
        /\ LoggedSlot.score = Unwrap(score).current
        /\ LoggedSlot.mode = settings.selected_mode
        /\ LoggedSlot.difficulty = settings.selected_difficulty
        /\ LoggedSlot.theme = settings.selected_theme
        /\ LoggedSlot.skin = settings.selected_skin
        /\ Unwrap(saveLog).ok => files[LoggedNumber] = SerializeSaveSlot(LoggedSlot)

\* ---- C2
\* the thresholds the claim lists
C2_Listed ==
    [d \in Difficulty |->
        CASE d = "Difficulty::Easy" -> << 5, 10, 15, 20 >>
          [] d = "Difficulty::Normal" -> << 10, 20, 30, 40 >>
          [] d = "Difficulty::Hard" -> << 15, 30, 45, 60 >>]

C2_AtVictory ==
    (state = "Victory" \/ next_state = Some("Victory")) =>
        /\ settings.selected_mode = "GameMode::Checkpoints"
        /\ Unwrap(score).current >= C2_Listed[settings.selected_difficulty][4]

C2_InOrder ==
    IsSome(cp) =>
        LET c == Unwrap(cp)
            listed == C2_Listed[settings.selected_difficulty]
        IN  /\ state = "Playing"
            /\ settings.selected_mode = "GameMode::Checkpoints"
            /\ c.checkpoints = listed
            /\ c.current_checkpoint_index \in 0 .. 3
            /\ \A j \in 1 .. c.current_checkpoint_index :
                  Unwrap(score).best >= listed[j]
            /\ next_state = Some("Victory") => c.completed
            /\ c.completed =>
                  /\ c.current_checkpoint_index = 3
                  /\ c.last_checkpoint_score = listed[4]
            /\ ~c.completed =>
                  c.last_checkpoint_score =
                      IF c.current_checkpoint_index = 0 THEN 0
                      ELSE listed[c.current_checkpoint_index]

C2_OnePerFrame ==
    (IsSome(cp) /\ IsSome(cp')) =>
        \/ Unwrap(cp').current_checkpoint_index = Unwrap(cp).current_checkpoint_index
        \/ Unwrap(cp').current_checkpoint_index = Unwrap(cp).current_checkpoint_index + 1

\* C2: Victory is entered only in Checkpoints mode, with score.current at or
\* above the last listed threshold of the difficulty and after the thresholds
\* (Easy 5,10,15,20; Normal 10,20,30,40; Hard 15,30,45,60) were reached in
\* order, the checkpoint index growing by at most 1 per frame; Endless and
\* TimeAttack runs never get to Victory.
C2_VictoryOnlyAfterAllCheckpoints ==
    /\ [](C2_AtVictory /\ C2_InOrder)
    /\ [][C2_OnePerFrame]_vars

\* a Hard run that got through 15, 30, 45 and 60
C2_HardVictory ==
    /\ state = "Victory"
    /\ settings.selected_difficulty = "Difficulty::Hard"
    /\ Unwrap(score).current >= 60

\* ---- C3
C3_Edges ==
    { << "MainMenu", t >> : t \in { "SaveSelect", "Playing", "Options", "Leaderboard" } }
    \cup { << "Options", t >> : t \in { "MainMenu", "SaveSelect", "ModeSelect",
                                         "DifficultySelect", "ThemeSelect",
                                         "SkinSelect" } }
    \cup { << "SaveSelect", t >> : t \in { "MainMenu", "Options", "Playing" } }
    \cup { << p, "Options" >> : p \in { "ModeSelect", "DifficultySelect",
                                         "ThemeSelect", "SkinSelect" } }
    \cup { << "Playing", t >> : t \in { "GameOver", "Victory", "MainMenu" } }
    \cup { << "GameOver", "MainMenu" >>, << "Victory", "MainMenu" >>,
           << "Leaderboard", "MainMenu" >> }

C3_Step ==
    /\ state' # state => << state, state' >> \in C3_Edges
    /\ (IsSome(next_state') /\ next_state' # next_state) =>
           /\ state' = state
           /\ << state, Unwrap(next_state') >> \in C3_Edges

\* C3: the state starts as MainMenu; it changes only along the listed edges,
\* and a transition is requested only by a frame of the state the edge
\* leaves.
C3_OnlyListedEdges ==
    /\ state = "MainMenu"
    /\ [][C3_Step]_vars

\* a run was won and the player is on the way back to the main menu
C3_BackFromVictory == state = "Victory" /\ next_state = Some("MainMenu")

\* ---- C4
\* C4: there is exactly one Bird entity while the state is Playing and none
\* in any other state, run after run.
C4_OneBirdWhilePlaying == birds = IF state = "Playing" THEN 1 ELSE 0

\* a run started right after another one ended
C4_SecondRun == state = "Playing" /\ runs = 2 /\ birds = 1

\* ---- C5
C5_Files ==
    /\ \A k \in SLOTS : files[k].kind = "json" => files[k].slot_number = k
    /\ settings.current_slot \in { None } \cup { Some(k) : k \in SLOTS }

C5_Write ==
    \A k \in SLOTS :
        (files'[k] # files[k] /\ files'[k].kind = "json") =>
            /\ state = "Playing"
            /\ next_state' = Some("GameOver")
            /\ settings.current_slot = Some(k)
            /\ settings'.current_slot = Some(k)

\* C5: slot k has its one record in slot_k.json; every record written
\* carries slot_number = k = current_slot of the run that ended, and
\* current_slot is none, 1, 2 or 3.
C5_OneRecordPerSlot ==
    /\ []C5_Files
    /\ [][C5_Write]_vars

\* a run on slot 3 was saved while slot 2's file is still the unreadable one
C5_Slot3Written ==
    /\ files[3].kind = "json"
    /\ files[2].kind = "garbage"
    /\ files[1].kind = "absent"

\* ---- C6
\* the save of this step: the slot, what its file held before, the score
C6_Saved ==
    /\ state = "Playing"
    /\ settings.selected_mode \in { "GameMode::Endless", "GameMode::TimeAttack" }
    /\ IsSome(saveLog')
    /\ Unwrap(saveLog').ok

C6_Record ==
    C6_Saved =>
        LET N == Unwrap(settings.current_slot)
            prev == load_save_slot(files, N)
            current == Unwrap(score').current
            rec == files'[N]
        IN  /\ rec.kind = "json"
            /\ rec.score = current
            /\ rec.profile.total_games =
                   (IF IsSome(prev) THEN Unwrap(prev).profile.total_games ELSE 0) + 1
            /\ rec.profile.high_score =
                   Max(IF IsSome(prev) THEN Unwrap(prev).profile.high_score ELSE 0,
                       current)
            /\ IsSome(prev) => rec.profile.name = Unwrap(prev).profile.name

\* an Endless run ends only with the bird's death, and the death saves
C6_DeathSaves ==
    (/\ state = "Playing"
     /\ settings.selected_mode = "GameMode::Endless"
     /\ next_state' = Some("GameOver")
     /\ next_state = None) => IsSome(saveLog')

C6_Monotone ==
    \A k \in SLOTS :
        (files[k].kind = "json" /\ files'[k].kind = "json") =>
            files'[k].profile.high_score >= files[k].profile.high_score

C6_Files ==
    \A k \in SLOTS :
        files[k].kind = "json" =>
            /\ files[k].profile.high_score >= files[k].score
            /\ files[k].profile.total_games >= 1

\* C6: the record an Endless or TimeAttack death writes to slot N has
\* total_games one above the persisted value, high_score the larger of the
\* persisted value and the run's score, the persisted name and the run's
\* score; every record has high_score >= score and total_games >= 1, and
\* a slot's high_score never goes down while its file exists.
C6_ProfileAfterDeath ==
    /\ []C6_Files
    /\ [][C6_Record /\ C6_DeathSaves /\ C6_Monotone]_vars

\* the second TimeAttack run of a slot scores below the slot's high score
C6_SecondRunBelowHigh ==
    /\ IsSome(saveLog)
    /\ Unwrap(saveLog).ok
    /\ settings.selected_mode = "GameMode::TimeAttack"
    /\ files[LoggedNumber].profile.total_games = 2
    /\ files[LoggedNumber].profile.high_score = 1
    /\ files[LoggedNumber].score = 0

\* ---- C7
\* the arithmetic mean of the saved runs, rounded once to f32
C7_RoundedMean == F32DivNat(F32FromNat(avgSum), avgProfile.total_games)

\* C7 as stated: after every saved run average_score is the arithmetic mean
\* of the scores of all the slot's runs.
C7_AverageIsMean ==
    avgProfile.total_games > 0 => avgProfile.average_score = C7_RoundedMean

\* C7, amended: average_score is the mean of the slot's runs as long as the
\* slot has at most 7 runs; in general it is the f32 value of the running
\* formula, within a relative error of 3 * total_games * 2^-23 of the mean.
C7_AverageNearMean ==
    avgProfile.total_games > 0 =>
        LET n == avgProfile.total_games
            a == avgProfile.average_score
            D == 2 ^ (0 - a.e)
            diff == a.m * n - avgSum * D
        IN  /\ n <= 7 => a = C7_RoundedMean
            /\ a.e <= 0
            /\ diff <= 3 * n * n
            /\ 0 - diff <= 3 * n * n

\* the eighth run leaves an average that is not the rounded mean
C7_EighthRunOff ==
    /\ avgProfile.total_games = 8
    /\ avgProfile.average_score # C7_RoundedMean

\* ---- C8
\* C8: a saved record holds the duration of the run that ended in
\* survival_time, and a slot that had no longer run before holds it in
\* longest_survival as well.
C8_SurvivalRecorded ==
    (GameOverRequested /\ IsSome(saveLog) /\ Unwrap(saveLog).ok) =>
        LET rec == files[LoggedNumber]
            prev == load_save_slot(Unwrap(saveLog).before, LoggedNumber)
            duration == F32FromNat(Unwrap(saveLog).duration)
        IN  /\ rec.survival_time = duration
            /\ ~IsSome(prev) => rec.profile.longest_survival = duration

\* ---- C9
C9_Names == << "Player 1", "Player 2", "Player 3" >>

C9_Load ==
    \A k \in SLOTS : files[k].kind # "json" => load_save_slot(files, k) = None

\* a frame of SaveSelect that selected a slot whose file gives no record
C9_Select ==
    (/\ state = "SaveSelect"
     /\ next_state = None
     /\ next_state' = Some(IF origin = "MainMenu" THEN "Playing" ELSE "MainMenu")) =>
        /\ IsSome(settings'.current_slot)
        /\ files[Unwrap(settings'.current_slot)].kind # "json" =>
              /\ settings'.selected_mode = "GameMode::Endless"
              /\ settings'.selected_difficulty = "Difficulty::Normal"
              /\ settings'.selected_theme = "Theme::Classic"
              /\ settings'.selected_skin = "Skin::Classic"

\* a save to a slot whose file gave no record
C9_FirstSave ==
    (state = "Playing" /\ IsSome(saveLog') /\ Unwrap(saveLog').ok) =>
        LET N == Unwrap(settings.current_slot)
            current == Unwrap(score').current
        IN  files[N].kind # "json" =>
               /\ files'[N].kind = "json"
               /\ files'[N].profile =
                      [name |-> C9_Names[N],
                       high_score |-> current,
                       total_games |-> 1,
                       average_score |-> F32FromNat(current),
                       longest_survival |-> F32Zero]

\* C9: a missing or unreadable save file is a new player: loading gives no
\* record, selecting the slot sets current_slot and the default mode,
\* difficulty, theme and skin, and the next save writes "Player N" with
\* total_games 1 and high_score = average_score = the run's score.
C9_MissingSaveIsNewPlayer ==
    /\ []C9_Load
    /\ [][C9_Select /\ C9_FirstSave]_vars

\* the unreadable file of slot 2 was replaced by the record of a first run
C9_GarbageReplaced ==
    /\ IsSome(saveLog)
    /\ Unwrap(saveLog).before[2].kind = "garbage"
    /\ files[2].kind = "json"
    /\ files[2].profile.name = "Player 2"
    /\ files[2].profile.total_games = 1
    /\ files[2].score = 1

\* ---- C10
\* a frame of Playing whose save_to_slot call failed
C10_Failed == state = "Playing" /\ IsSome(saveLog') /\ ~Unwrap(saveLog').ok

\* the same frame with a write that succeeds ends with the same next state,
\* settings, score and timer
C10_AsAfterSuccess ==
    \E delta \in Deltas, c \in Collisions, keys \in SUBSET { "Escape" },
       order \in PlayingOrders(settings.selected_mode) :
        LET in == [NoInput EXCEPT !.keys = keys, !.delta = delta,
                                  !.floor = c.floor, !.hit = c.hit,
                                  !.passed = c.passed, !.io_ok = TRUE]
            w == RunSystems(order, Quiet(World), in)
        IN  /\ IsSome(w.saveLog)
            /\ Unwrap(w.saveLog).slot = Unwrap(saveLog').slot
            /\ w.next_state = next_state'
            /\ w.settings = settings'
            /\ w.score = score'
            /\ w.timer = timer'

C10_Step ==
    /\ C10_Failed =>
          /\ state' = "Playing"
          /\ next_state' = Some("GameOver")
          /\ settings' = settings
          /\ files' = files
          /\ C10_AsAfterSuccess
    /\ (state \notin { "Playing", "SaveSelect" } \/ IsSome(next_state)) =>
          files' = files

\* C10: a failed write of the save file changes nothing else: the frame
\* still requests GameOver, settings and score are what a successful write
\* leaves, the file keeps its old content, and no later frame writes it
\* again.
C10_WriteFailureSwallowed == [][C10_Step]_vars

\* the game-over screen after a run whose save could not be written
C10_GameOverUnsaved ==
    /\ state = "GameOver"
    /\ settings.selected_mode = "GameMode::Endless"
    /\ settings.current_slot = Some(1)
    /\ files[1].kind = "absent"

\* ---- C11
\* strings a save file may hold where an enum is expected
SampleStrings ==
    { "Endless", "TimeAttack", "Checkpoints", "Easy", "Normal", "Hard",
      "Classic", "HighContrast", "Minimal", "Red", "Blue", "Green",
      "", "Zen", "endless", "GameMode::Endless", "Skin::Red", "NORMAL" }

C11_Doc == SerializeSaveSlot(MakeSaveSlot(1, None, DefaultSettings, 0))

\* deserialise(serialise(v)) = v for every value of the four enums, and every
\* other string is rejected and makes the record load as absent
C11_Serde ==
    /\ \A v \in GameMode : DeserializeGameMode(SerializeGameMode(v)) = Some(v)
    /\ \A v \in Difficulty : DeserializeDifficulty(SerializeDifficulty(v)) = Some(v)
    /\ \A v \in Theme : DeserializeTheme(SerializeTheme(v)) = Some(v)
    /\ \A v \in Skin : DeserializeSkin(SerializeSkin(v)) = Some(v)
    /\ \A x \in SampleStrings :
          /\ x \notin { SerializeGameMode(v) : v \in GameMode } =>
                /\ DeserializeGameMode(x) = None
                /\ DeserializeSaveSlot([C11_Doc EXCEPT !.mode = x]) = None
          /\ x \notin { SerializeDifficulty(v) : v \in Difficulty } =>
                /\ DeserializeDifficulty(x) = None
                /\ DeserializeSaveSlot([C11_Doc EXCEPT !.difficulty = x]) = None
          /\ x \notin { SerializeTheme(v) : v \in Theme } =>
                /\ DeserializeTheme(x) = None
                /\ DeserializeSaveSlot([C11_Doc EXCEPT !.theme = x]) = None
          /\ x \notin { SerializeSkin(v) : v \in Skin } =>
                /\ DeserializeSkin(x) = None
                /\ DeserializeSaveSlot([C11_Doc EXCEPT !.skin = x]) = None

\* the settings a record holds
C11_SettingsOf(slot_num, rec) ==
    [current_slot |-> Some(slot_num),
     selected_mode |-> rec.mode,
     selected_difficulty |-> rec.difficulty,
     selected_theme |-> rec.theme,
     selected_skin |-> rec.skin]

\* a frame that wrote a record: the file loads, and selecting the slot puts
\* the settings of the run back
C11_Write ==
    (IsSome(saveLog') /\ Unwrap(saveLog').ok) =>
        LET k == Unwrap(saveLog').slot.slot_number
        IN  /\ settings.current_slot = Some(k)
            /\ load_save_slot(files', k) = Some(Unwrap(saveLog').slot)
            /\ C11_SettingsOf(k, Unwrap(load_save_slot(files', k))) = settings
            /\ select_slot([World EXCEPT !.files = files'], k).settings = settings

\* a frame that selected a slot: the settings are those of its file, read
\* back value by value, or the defaults when the file does not load
C11_Select ==
    (state = "SaveSelect" /\ next_state = None /\ next_state' # None
        /\ next_state' # Some(origin)) =>
        \E k \in SLOTS :
            /\ settings'.current_slot = Some(k)
            /\ files' = files
            /\ IF files[k].kind = "json"
                  /\ files[k].mode \in { SerializeGameMode(v) : v \in GameMode }
               THEN /\ SerializeGameMode(settings'.selected_mode) = files[k].mode
                    /\ SerializeDifficulty(settings'.selected_difficulty)
                           = files[k].difficulty
                    /\ SerializeTheme(settings'.selected_theme) = files[k].theme
                    /\ SerializeSkin(settings'.selected_skin) = files[k].skin
               ELSE settings' = [DefaultSettings EXCEPT !.current_slot = Some(k)]

\* C11: the settings round-trip through a save slot: every value of GameMode,
\* Difficulty, Theme and Skin deserialises from its serialisation, what a
\* game over writes is what the next selection of the slot puts back into the
\* settings, and a record with any other string loads as absent.
C11_SettingsRoundTrip == [][C11_Serde /\ C11_Write /\ C11_Select]_vars

\* the slot that a run with the green skin wrote is selected on the save
\* screen and its settings are in place
C11_GreenSelected ==
    /\ state = "SaveSelect"
    /\ next_state = Some("MainMenu")
    /\ runs = 1
    /\ files[3] = BadEnumDoc
    /\ files[1].kind = "json"
    /\ files[1].skin = "Green"
    /\ settings = PickedSettings("GameMode::Endless", "Difficulty::Normal",
                                 "Theme::Classic", "Skin::Green")

\* ---- C13
C13_Pickers == { "ModeSelect", "DifficultySelect", "ThemeSelect", "SkinSelect" }

\* the settings with one field taken from other settings
C13_With(st, field, from) == [st EXCEPT ![field] = from[field]]

\* Escape pressed, alone or with any digit, in the picker that is shown
C13_Escape ==
    state \in C13_Pickers =>
    \A in \in Keys({ "Escape", "Digit1", "Digit2", "Digit3", "Digit4" }) :
        "Escape" \in in.keys =>
            /\ state = "ModeSelect" => mode_select_system(World, in).settings = settings
            /\ state = "DifficultySelect" =>
                    difficulty_select_system(World, in).settings = settings
            /\ state = "ThemeSelect" => theme_select_system(World, in).settings = settings
            /\ state = "SkinSelect" => skin_select_system(World, in).settings = settings

\* C13: the settings change only in a frame of SaveSelect or of one of the
\* four pickers, each picker changes at most its own field, no frame of
\* MainMenu, Options, Leaderboard, Playing, GameOver or Victory and no state
\* transition changes them, and Escape in a picker leaves them unchanged.
C13_SettingsOnlyInPickers ==
    /\ []C13_Escape
    /\ [][/\ settings' # settings =>
                 /\ state' = state
                 /\ state \in C13_Pickers \cup { "SaveSelect" }
          /\ state = "ModeSelect" =>
                 C13_With(settings', "selected_mode", settings) = settings
          /\ state = "DifficultySelect" =>
                 C13_With(settings', "selected_difficulty", settings) = settings
          /\ state = "ThemeSelect" =>
                 C13_With(settings', "selected_theme", settings) = settings
          /\ state = "SkinSelect" =>
                 C13_With(settings', "selected_skin", settings) = settings]_vars

\* the theme picker has set the theme of a chosen slot and nothing else, and
\* the settings are still those when the run that follows has ended
C13_ThemePickedThenPlayed ==
    /\ state = "GameOver"
    /\ picks = 1
    /\ runs = 1
    /\ settings = [DefaultSettings EXCEPT !.current_slot = settings.current_slot,
                                          !.selected_theme = "Theme::HighContrast"]
    /\ IsSome(settings.current_slot)

\* ---- C14
C14_TimeAttack == settings.selected_mode = "GameMode::TimeAttack"

\* entering Playing sets the countdown to 60; a frame of Playing takes the
\* frame's delta off it and requests GameOver exactly when it is used up or
\* the bird died; no frame starts with a countdown that is used up
C14_Countdown ==
    /\ (state # "Playing" /\ state' = "Playing" /\ C14_TimeAttack) =>
            timer' = Some([remaining |-> 60])
    /\ (state = "Playing" /\ Idle /\ C14_TimeAttack) =>
            /\ IsSome(timer) /\ IsSome(timer')
            /\ Unwrap(timer).remaining > 0
            /\ \E d \in Deltas :
                  /\ d > 0
                  /\ Unwrap(timer').remaining = Unwrap(timer).remaining - d
                  /\ elapsed' = Min(elapsed + d, MaxElapsed)
            /\ Unwrap(timer').remaining <= 0 => next_state' = Some("GameOver")
            /\ (Unwrap(timer').remaining > 0 /\ next_state' # None) =>
                    /\ next_state' = Some("GameOver")
                    /\ IsSome(saveLog')

\* C14: in Time Attack the remaining time is 60 on entering Playing, goes
\* down by the frame delta in each Playing frame, GameOver is requested in
\* the first frame in which it is <= 0, and with positive deltas every Time
\* Attack run eventually leaves Playing.
C14_CountdownEndsRun ==
    /\ [][C14_Countdown]_vars
    /\ (state = "Playing" /\ C14_TimeAttack) ~> (state # "Playing")

\* the countdown reached exactly zero and ended the run of a living bird
C14_TimeUp ==
    /\ state = "Playing"
    /\ C14_TimeAttack
    /\ next_state = Some("GameOver")
    /\ timer = Some([remaining |-> 0])
    /\ saveLog = None

\* ---- C15
C15_Loadable(fs) == { k \in SLOTS : IsSome(load_save_slot(fs, k)) }

C15_EntryOf(fs, k) ==
    LET save == Unwrap(load_save_slot(fs, k))
    IN  [name |-> save.profile.name, score |-> save.score,
         mode |-> save.mode, difficulty |-> save.difficulty]

\* b lists the loadable slots of fs once each, by score downwards and, within
\* one score, by slot number upwards
C15_Lists(fs, b) ==
    /\ Len(b) = Cardinality(C15_Loadable(fs))
    /\ Len(b) <= 3
    /\ \E o \in [1 .. Len(b) -> SLOTS] :
          /\ \A i \in 1 .. Len(b) : o[i] \in C15_Loadable(fs) /\ b[i] = C15_EntryOf(fs, o[i])
          /\ \A i, j \in 1 .. Len(b) :
                i < j => \/ b[i].score > b[j].score
                         \/ b[i].score = b[j].score /\ o[i] < o[j]

\* C15: the leaderboard holds one entry for each slot 1..3 whose save loads,
\* with the name, last-run score, mode and difficulty of that save, ordered
\* by score downwards and by slot upwards within a score; building it
\* changes no file and no setting.
C15_LeaderboardEntries ==
    [][/\ (state # "Leaderboard" /\ state' = "Leaderboard") =>
              /\ C15_Lists(files, board')
              /\ files' = files
              /\ settings' = settings
       /\ state = "Leaderboard" => C15_Lists(files, board)]_vars

\* three records are listed, the one of slot 2 first and the two of the
\* lower score in slot order
C15_TieInSlotOrder ==
    /\ state = "Leaderboard"
    /\ Len(board) = 3
    /\ board[1].name = "Player 2" /\ board[1].score = 1
    /\ board[1].mode = "GameMode::TimeAttack" /\ board[1].difficulty = "Difficulty::Hard"
    /\ board[2].name = "Player 1" /\ board[2].score = 0
    /\ board[3].name = "Player 3" /\ board[3].score = 0

\* ---- C16
C16_Changed == { k \in SLOTS : files'[k] # files[k] }

\* (a) a Playing frame changes a file only by writing the record of a death
\* to the current slot, and the file is then that record and nothing else
C16_Write ==
    (state = "Playing" /\ C16_Changed # {}) =>
        /\ Idle /\ next_state' = Some("GameOver")
        /\ IsSome(settings.current_slot)
        /\ C16_Changed = { Unwrap(settings.current_slot) }
        /\ IsSome(saveLog') /\ Unwrap(saveLog').ok
        /\ files'[Unwrap(settings.current_slot)] = SerializeSaveSlot(Unwrap(saveLog').slot)

\* Ctrl and the digit of one slot pressed on the save screen
C16_CtrlDigit(k, io_ok) ==
    [NoInput EXCEPT !.keys = { DigitKey(k) }, !.ctrl = TRUE, !.io_ok = io_ok]

\* (b) a SaveSelect frame changes a file only by removing it
C16_Delete ==
    (state = "SaveSelect" /\ C16_Changed # {}) =>
        /\ Idle /\ state' = state
        /\ \A k \in C16_Changed : PathExists(files[k]) /\ files'[k] = NoFile

\* Ctrl+k on the save screen, applied to the world as it is, leaves the
\* files of the other two slots as they are
C16_OthersKept ==
    state = "SaveSelect" =>
        \A k \in SLOTS, io_ok \in BOOLEAN :
            \A j \in SLOTS \ { k } :
                /\ delete_save_slot(files, k, io_ok)[1][j] = files[j]
                /\ save_select_system(World, C16_CtrlDigit(k, io_ok)).files[j] = files[j]

\* C16: a save file changes only by the write of a run that ends in death
\* with that slot current, or by its removal with Ctrl+k on the save screen;
\* either leaves the files of the other two slots as they were, and a write
\* replaces the earlier record of the slot completely.
C16_FilesChangeByWriteOrDelete ==
    /\ []C16_OthersKept
    /\ [][/\ C16_Changed # {} => state \in { "Playing", "SaveSelect" }
          /\ C16_Write
          /\ C16_Delete]_vars

\* slot 1 holds the record of its second run, which replaced the first, and
\* the unreadable file of slot 3 has just been removed next to it
C16_DeletedBesideRewritten ==
    /\ state = "SaveSelect"
    /\ flag
    /\ runs = 1
    /\ files[3] = NoFile
    /\ files[1].kind = "json"
    /\ files[1].profile.total_games = 2

\* ---- C17
\* where choosing a slot leads
C17_AfterChoice == IF origin = "MainMenu" THEN "Playing" ELSE "MainMenu"

\* on the save screen the origin is one of the two menus, and the screen's
\* system applied to the world as it is goes back to the origin on Escape,
\* with any other key, and chooses on a digit without Ctrl
C17_Keys ==
    state = "SaveSelect" =>
    /\ origin \in { "MainMenu", "Options" }
    /\ \A in0 \in Keys({ "Escape", "Digit1", "Digit2", "Digit3" }), ctrl \in BOOLEAN :
          "Escape" \in in0.keys =>
              save_select_system(World, [in0 EXCEPT !.ctrl = ctrl]).next_state
                  = Some(origin)
    /\ \A k \in SLOTS :
          LET w == save_select_system(World, [NoInput EXCEPT !.keys = { DigitKey(k) }])
          IN  /\ w.next_state = Some(C17_AfterChoice)
              /\ w.settings.current_slot = Some(k)

\* C17: whenever the state is SaveSelect, SaveSelectOrigin holds the state it
\* was entered from, which is MainMenu or Options; Escape goes back to that
\* state, and choosing a slot goes to Playing when the origin is MainMenu and
\* to MainMenu when it is Options.
C17_OriginIsWhereFrom ==
    /\ []C17_Keys
    /\ [][/\ (state # "SaveSelect" /\ state' = "SaveSelect") =>
                 /\ state \in { "MainMenu", "Options" }
                 /\ origin' = state
          /\ state = "SaveSelect" =>
                 /\ origin' = origin
                 /\ (Idle /\ next_state' # None) =>
                        \/ next_state' = Some(origin) /\ settings' = settings
                        \/ /\ next_state' = Some(C17_AfterChoice)
                           /\ IsSome(settings'.current_slot)
                 /\ state' # "SaveSelect" => Some(state') = next_state]_vars

\* the save screen was entered from the main menu after the options had been
\* its origin, and slot 2 chosen there starts a run
C17_ChosenFromMainMenu ==
    /\ state = "SaveSelect"
    /\ origin = "MainMenu"
    /\ next_state = Some("Playing")
    /\ settings.current_slot = Some(2)

\* ---- C18
C18_Checkpoints == settings.selected_mode = "GameMode::Checkpoints"

\* the frames in which the bird dies: it is on the floor or in a pipe
C18_Deaths ==
    { [in0 EXCEPT !.delta = d, !.floor = c.floor, !.hit = c.hit,
                  !.passed = c.passed, !.io_ok = io_ok] :
        in0 \in Keys({ "Escape" }), d \in Deltas, io_ok \in BOOLEAN,
        c \in { x \in Collisions : x.floor \/ x.hit } }

\* a death in the world as it is, under every order of the Playing systems:
\* the score is the last checkpoint's, the bird is at rest at y = 0, nothing
\* is saved, and nothing is requested unless Escape was pressed or the last
\* checkpoint was registered in the same frame
C18_Respawn ==
    \A in \in C18_Deaths, order \in PlayingOrders(settings.selected_mode) :
        LET w == RunSystems(order, Quiet(World), in)
        IN  /\ Unwrap(w.score).current = Unwrap(w.cp).last_checkpoint_score
            /\ w.pose = "origin"
            /\ w.birds = 1
            /\ w.files = files
            /\ w.saveLog = None
            /\ w.next_state # Some("GameOver")
            /\ ("Escape" \notin in.keys /\ ~Unwrap(w.cp).completed) =>
                   w.next_state = None

\* C18: in Checkpoints a death does not end the run: it sets the current
\* score to the last checkpoint's score and the bird to velocity 0 at y = 0,
\* keeps Playing and writes no save; GameOver is never reached or requested
\* in Checkpoints, a Checkpoints run changes no profile, and no record in a
\* save file has the mode Checkpoints.
C18_CheckpointDeathRespawns ==
    /\ [](/\ C18_Checkpoints =>
                /\ state # "GameOver" /\ next_state # Some("GameOver")
                /\ (state = "Playing" /\ Idle) => C18_Respawn
          /\ \A k \in SLOTS :
                files[k].kind = "json" => files[k].mode # "Checkpoints")
    /\ [][(C18_Checkpoints /\ state = "Playing") =>
              /\ files' = files /\ saveLog' = None
              /\ (Idle /\ pose' = "origin") =>
                     Unwrap(score').current = Unwrap(cp').last_checkpoint_score]_vars

\* the bird died above its last checkpoint and is back at rest with that
\* checkpoint's score, still playing
C18_BackAtCheckpoint ==
    /\ state = "Playing"
    /\ C18_Checkpoints
    /\ next_state = None
    /\ elapsed > 0
    /\ pose = "origin"
    /\ Unwrap(cp).last_checkpoint_score > 0
    /\ Unwrap(score).current = Unwrap(cp).last_checkpoint_score
    /\ Unwrap(score).best > Unwrap(score).current

\* ---- C19
\* C19: once the current score has reached the target of the current
\* checkpoint, a later death resets the current score to at least that
\* target, in whatever order update_bird and update_checkpoints run.
C19_DeathKeepsReachedTarget ==
    [][(/\ state = "Playing" /\ Idle /\ C18_Checkpoints
        /\ ~Unwrap(cp).completed
        /\ Unwrap(score).current >= target_score(Unwrap(cp))
        /\ pose' = "origin")
       => Unwrap(score').current >= target_score(Unwrap(cp))]_vars

\* ---- C20
\* the inputs of a Playing frame
C20_Inputs ==
    { [in0 EXCEPT !.delta = d, !.floor = c.floor, !.hit = c.hit,
                  !.passed = c.passed, !.io_ok = io_ok] :
        in0 \in Keys({ "Escape" }), d \in Deltas, io_ok \in BOOLEAN,
        c \in Collisions }

\* C20: the state requested by a Playing frame does not depend on the order
\* in which the unordered Playing systems run: from one world and one input
\* every order requests the same next state.
C20_OrderIndependent ==
    (state = "Playing" /\ Idle) =>
        \A in \in C20_Inputs :
            \A o1, o2 \in PlayingOrders(settings.selected_mode) :
                RunSystems(o1, Quiet(World), in).next_state
                    = RunSystems(o2, Quiet(World), in).next_state

\* ---- C12
C12_Tops == { i \in DOMAIN obstacles : obstacles[i].pipe_direction = 1 }
C12_Bottoms == { i \in DOMAIN obstacles : obstacles[i].pipe_direction = 0 - 1 }

\* ten obstacle entities while Playing, five of each direction
C12_TenObstacles ==
    state = "Playing" =>
        /\ Len(obstacles) = 10
        /\ Cardinality(C12_Tops) = 5
        /\ Cardinality(C12_Bottoms) = 5

\* obstacle i in a frame that scrolls by sc: when its right edge ends left of
\* the window's left edge it is 1200 to the right of where the scroll took
\* it, at a newly drawn height, not scored; else it has only scrolled
C12_Recycled(i, sc) ==
    LET o == obstacles[i]
        n == obstacles'[i]
        x == o.x - sc
    IN  /\ n.pipe_direction = o.pipe_direction
        /\ IF x + 64 < 0 - 400
           THEN /\ n.x = x + 1200
                /\ \E off \in Offsets :
                      n.y = get_centered_pipe_position(settings.selected_difficulty)
                                * o.pipe_direction + off
                /\ ~n.scored
           ELSE /\ n.x = x
                /\ n.y = o.y

\* C12: obstacles are recycled, never despawned or respawned during a run:
\* there are exactly 10 obstacle entities (5 top, 5 bottom) from the first
\* Playing frame until Playing is left; an obstacle whose right edge is left
\* of the window's left edge is moved right by 5 * 60 * 4 = 1200 pixels, gets
\* a new vertical position and has scored cleared; its direction never changes.
C12_ObstaclesRecycled ==
    /\ []C12_TenObstacles
    /\ [][(state = "Playing" /\ state' = "Playing") =>
              /\ Len(obstacles') = Len(obstacles)
              /\ \E sc \in Scrolls :
                    \A i \in DOMAIN obstacles : C12_Recycled(i, sc)]_vars

\* the first top pipe has been passed and scored, has left the window on the
\* left and is back on the right at another height, not scored
C12_FirstPipeRecycled ==
    /\ state = "Playing"
    /\ Unwrap(score).current >= 3
    /\ obstacles[1].pipe_direction = 1
    /\ obstacles[1].x > 400
    /\ obstacles[1].x < 400 + 1200 - 864
    /\ ~obstacles[1].scored
    /\ obstacles[1].y # spawn_obstacles(settings.selected_difficulty)[1].y
    /\ obstacles[3].scored

\* ---- C21
C21_Top(i) == obstacles[i].pipe_direction = 1

\* a scored pipe is a top pipe left of the bird; a top pipe left of the bird
\* that has not scored is less than one spacing past it
C21_Flags ==
    state = "Playing" =>
        \A i \in DOMAIN obstacles :
            /\ obstacles[i].scored => (C21_Top(i) /\ obstacles[i].x < 0)
            /\ (C21_Top(i) /\ ~obstacles[i].scored) =>
                   obstacles[i].x > 0 - OBSTACLE_SPACING * PIXEL_RATIO

C21_Newly == { i \in DOMAIN obstacles : ~obstacles[i].scored /\ obstacles'[i].scored }
C21_Cleared == { i \in DOMAIN obstacles : obstacles[i].scored /\ ~obstacles'[i].scored }

\* one frame of a run: the score grows by the number of pipes whose flag was
\* set, at most one and a top pipe left of the bird; a frame that does not end
\* the run sets it for every top pipe the bird has passed; a flag is cleared
\* only for a pipe that is back on the right of the bird
C21_Frame ==
    (state = "Playing" /\ state' = "Playing") =>
        /\ Unwrap(score').current = Unwrap(score).current + Cardinality(C21_Newly)
        /\ Cardinality(C21_Newly) <= 1
        /\ \A i \in C21_Newly : C21_Top(i) /\ obstacles'[i].x < 0
        /\ next_state' = None =>
               \A i \in DOMAIN obstacles :
                   (C21_Top(i) /\ ~obstacles[i].scored /\ obstacles[i].x < 0)
                       => obstacles'[i].scored
        /\ \A i \in DOMAIN obstacles :
               (~obstacles[i].scored /\ obstacles[i].x - 2 * OBSTACLE_SPACING >= 0)
                   => ~obstacles'[i].scored
        /\ \A i \in C21_Cleared : obstacles'[i].x > 0

C22_Opening(i) ==
    (obstacles[i].y - (OBSTACLE_HEIGHT * PIXEL_RATIO) \div 2)
        - (obstacles[i + 1].y + (OBSTACLE_HEIGHT * PIXEL_RATIO) \div 2)

\* C22: the top and bottom pipe of a pair stay a pair for the whole run: they
\* always have the same x and the same vertical offset, so the opening between
\* them always equals the difficulty's gap (2 * gap_size * 4 px), at spawn and
\* after every recycle.
C22_PairsKeepGap ==
    state = "Playing" =>
        \A k \in 0 .. OBSTACLE_AMOUNT - 1 :
            LET c == get_centered_pipe_position(settings.selected_difficulty)
            IN  /\ obstacles[2 * k + 1].pipe_direction = 1
                /\ obstacles[2 * k + 2].pipe_direction = 0 - 1
                /\ obstacles[2 * k + 1].x = obstacles[2 * k + 2].x
                /\ obstacles[2 * k + 1].y - c = obstacles[2 * k + 2].y + c
                /\ C22_Opening(2 * k + 1)
                       = 2 * (c - (OBSTACLE_HEIGHT * PIXEL_RATIO) \div 2)

\* ---- C23
C23_Abs(a) == IF a < 0 THEN 0 - a ELSE a

\* the bird at height y, in 1/25 pixel, is at or below the lower edge of the
\* window
C23_Floor(y) == y <= 0 - 300 * 25

\* the bird's centre is strictly inside the pipe's box
C23_Inside(o, y) ==
    /\ C23_Abs(o.y * 25 - y) < 288 * 25
    /\ C23_Abs(o.x) < 64

C23_In(early) ==
    [keys |-> { }, ctrl |-> FALSE, io_ok |-> TRUE, delta |-> 0, floor |-> FALSE,
     hit |-> FALSE, passed |-> 0, scroll |-> 0, early |-> early, top |-> 16,
     bottom |-> 0 - 16, ticks |-> 1]

\* update_bird on the pipes as they are, for every height: the run ends
\* exactly at the floor or inside a box; the floor scores nothing; above the
\* pipes the bird lives and scores every top pipe it has passed
C23_Tests ==
    (state = "Playing" /\ Idle) =>
        \A b \in Flights, early \in BOOLEAN :
            LET y == fly(b, C23_In(early), difficulty_tuning(settings.selected_difficulty)).y
                w == update_bird_flying([Quiet(World) EXCEPT !.bird = Some(b)],
                                        C23_In(early))
                passed == { i \in DOMAIN obstacles :
                              /\ obstacles[i].pipe_direction = 1
                              /\ ~obstacles[i].scored
                              /\ obstacles[i].x < 0 }
            IN  /\ w.bird = Some([velocity |-> b.velocity - 208, y |-> y])
                /\ w.next_state \in { None, Some("GameOver") }
                /\ (w.next_state = Some("GameOver")) <=>
                       (C23_Floor(y) \/ \E i \in DOMAIN obstacles :
                                            C23_Inside(obstacles[i], y))
                /\ C23_Floor(y) => (w.score = score /\ w.obstacles = obstacles)
                /\ (\A i \in DOMAIN obstacles : y > (obstacles[i].y + 288) * 25) =>
                       /\ w.next_state = None
                       /\ Unwrap(w.score).current
                              = Unwrap(score).current + Cardinality(passed)
                       /\ \A i \in passed : w.obstacles[i].scored

\* a frame of the run, with the pipes as they were before or after their
\* scroll of the frame
C23_Frame ==
    (state = "Playing" /\ Idle /\ state' = "Playing") =>
        LET y == Unwrap(bird').y
        IN  /\ next_state' = Some("GameOver") =>
                   \/ C23_Floor(y)
                   \/ \E i \in DOMAIN obstacles :
                         C23_Inside(obstacles[i], y) \/ C23_Inside(obstacles'[i], y)
            /\ next_state' = None => ~C23_Floor(y)
            /\ C23_Floor(y) => score' = score

\* C23: the bird dies in a frame exactly when, after the position update, its
\* y <= -window_height / 2 or its centre is strictly inside some pipe's box
\* (|pipe.y - bird.y| < 288 and |pipe.x - bird.x| < 64); there is no ceiling
\* test: a bird above the upper edge of the top pipes crosses the pipe columns
\* alive and still scores them; a floor death scores no pipe in that frame.
C23_DeathAtFloorOrInBox == []C23_Tests /\ [][C23_Frame]_vars

\* the bird is above the top pipes, in the column of a pipe that went past it
\* and scored in this frame, and the run goes on
C23_ScoredAboveThePipes ==
    /\ state = "Playing"
    /\ next_state = None
    /\ Unwrap(score).current = 1
    /\ \E i \in DOMAIN obstacles :
          /\ obstacles[i].pipe_direction = 1
          /\ obstacles[i].scored
          /\ obstacles[i].x < 0
          /\ obstacles[i].x >= 0 - 30
          /\ Unwrap(bird).y > (obstacles[i].y + 288) * 25

\* ---- C24
\* C24: for each difficulty and every vertical offset the generator can
\* return, the height y = 0 is outside every pipe's box (|pipe.y| >= 288), at
\* spawn and after every recycle; so a bird put at y = 0, at the start of a
\* run or by a checkpoint respawn, does not overlap a pipe there.
C24_OriginOutsideBoxes ==
    \A i \in DOMAIN obstacles :
        /\ C23_Abs(obstacles[i].y) >= 288
        /\ ~in_box([obstacles[i] EXCEPT !.x = 0], 0)

\* the narrowest placing: at Hard the top pipe spawned with the lowest offset
\* and the bottom pipe recycled with the highest
C24_NarrowestHard ==
    /\ settings.selected_difficulty = "Difficulty::Hard"
    /\ Len(obstacles) = 2
    /\ obstacles[1].y = 363 - 38
    /\ obstacles[2].y = 38 - 363
    /\ obstacles[2].x > 0

\* ---- C25
\* a run, pending or going on, has one of the three slots; the main menu
\* without a slot never asks for Playing, and Space alone asks for SaveSelect
C25_Slot ==
    /\ (state = "Playing" \/ next_state = Some("Playing")) =>
           /\ IsSome(settings.current_slot)
           /\ Unwrap(settings.current_slot) \in { 1, 2, 3 }
    /\ (state = "MainMenu" /\ Idle /\ settings.current_slot = None) =>
           \A in \in Keys({ "Space", "KeyO", "KeyL" }) :
               LET w == main_menu_system(Quiet(World), in)
               IN  /\ w.next_state # Some("Playing")
                   /\ in.keys = { "Space" } => w.next_state = Some("SaveSelect")

\* from the request for Playing until Playing is left the three settings
\* keep their values
C25_Kept ==
    ((state = "Playing" /\ state' = "Playing")
         \/ (next_state = Some("Playing") /\ state' = "Playing")) =>
        /\ settings'.current_slot = settings.current_slot
        /\ settings'.selected_mode = settings.selected_mode
        /\ settings'.selected_difficulty = settings.selected_difficulty

\* C25: Playing is only ever entered with a slot selected: in every frame of
\* Playing current_slot is Some(k) with k in {1,2,3}, and current_slot,
\* selected_mode and selected_difficulty keep the values they had on entry
\* until Playing is left; from MainMenu, Space with no slot selected goes to
\* SaveSelect and never directly to Playing.
C25_PlayingHasSlot == []C25_Slot /\ [][C25_Kept]_vars

\* a run started from the save selection that the main menu opened because no
\* slot was selected
C25_StartedFromSaveSelect ==
    /\ state = "Playing"
    /\ origin = "MainMenu"
    /\ IsSome(settings.current_slot)
    /\ birds = 1

\* ---- C26
\* save_select_system on Ctrl and the digit of slot k, with the removal of the
\* file succeeding or failing
C26_After(k, io_ok) ==
    save_select_system(Quiet(World),
        [NoInput EXCEPT !.keys = { DigitKey(k) }, !.ctrl = TRUE, !.io_ok = io_ok])

\* no slot is selected, SaveSelect is not left, the four settings stay
C26_NoSelection(w) ==
    /\ w.next_state = None
    /\ w.settings.current_slot \in { None, settings.current_slot }
    /\ w.settings.selected_mode = settings.selected_mode
    /\ w.settings.selected_difficulty = settings.selected_difficulty
    /\ w.settings.selected_theme = settings.selected_theme
    /\ w.settings.selected_skin = settings.selected_skin

\* the file of slot k is gone, no slot is selected, the refresh flag is set
C26_Removed(w, k) ==
    /\ w.files = [files EXCEPT ![k] = NoFile]
    /\ w.settings.current_slot = None
    /\ w.flag

\* C26: in SaveSelect, Ctrl+digit k never selects a slot and never leaves
\* SaveSelect: if slot k's file exists it is removed, current_slot becomes
\* None whichever slot was selected before, and the refresh flag is set; if no
\* file exists nothing changes at all. Mode, difficulty, theme and skin are
\* unchanged in both cases.
C26_CtrlDigitRemoves ==
    (state = "SaveSelect" /\ Idle) =>
        \A k \in SLOTS, io_ok \in BOOLEAN :
            /\ C26_NoSelection(C26_After(k, io_ok))
            /\ IF PathExists(files[k])
               THEN C26_Removed(C26_After(k, io_ok), k)
               ELSE C26_After(k, io_ok) = Quiet(World)

\* C26 as the code has it: the file is removed, current_slot cleared and the
\* flag set when the file exists and remove_file succeeds; when there is no
\* file or remove_file fails, nothing changes at all.
C26_CtrlDigitRemovesIfItCan ==
    (state = "SaveSelect" /\ Idle) =>
        \A k \in SLOTS, io_ok \in BOOLEAN :
            /\ C26_NoSelection(C26_After(k, io_ok))
            /\ IF PathExists(files[k]) /\ io_ok
               THEN C26_Removed(C26_After(k, io_ok), k)
               ELSE C26_After(k, io_ok) = Quiet(World)

\* the unreadable file of slot 3 has been removed on the save screen, the
\* record of slot 1 is kept, and no slot is selected any more
C26_OtherSlotRemoved ==
    /\ state = "SaveSelect"
    /\ files[3] = NoFile
    /\ PathExists(files[1])
    /\ settings.current_slot = None
    /\ flag
    /\ runs = 0

\* ---- C27
\* the inputs of a Playing frame, Escape pressed or not
C27_Inputs(keys) ==
    { [NoInput EXCEPT !.keys = keys, !.delta = delta, !.floor = c.floor,
                      !.hit = c.hit, !.passed = c.passed, !.io_ok = io_ok] :
          delta \in Deltas, c \in Collisions, io_ok \in BOOLEAN }

\* the Playing systems, handle_escape_in_checkpoint among them, in every
\* order, applied to the world as it is: outside Checkpoints a frame with
\* Escape ends as the same frame without it; in Checkpoints no frame without
\* Escape asks for MainMenu
C27_Escape ==
    (state = "Playing" /\ Idle) =>
        \A in \in C27_Inputs({ }),
           order \in Orders(ActiveSystems(settings.selected_mode)
                                \cup { "handle_escape_in_checkpoint" }) :
            \E w \in { RunSystems(order, Quiet(World), in) } :
                IF settings.selected_mode = "GameMode::Checkpoints"
                THEN w.next_state # Some("MainMenu")
                ELSE RunSystems(order, Quiet(World),
                                [in EXCEPT !.keys = { "Escape" }]) = w

\* a frame of Playing: MainMenu is asked for only in Checkpoints, by a frame
\* that writes no save; the other modes ask for GameOver or nothing; no frame
\* changes a setting
C27_Frame ==
    (state = "Playing" /\ Idle) =>
        /\ settings' = settings
        /\ next_state' = Some("MainMenu") =>
               /\ settings.selected_mode = "GameMode::Checkpoints"
               /\ saveLog' = None
               /\ files' = files
        /\ settings.selected_mode # "GameMode::Checkpoints" =>
               next_state' \in { None, Some("GameOver") }

\* C27: during Playing, Escape returns to MainMenu only in Checkpoints mode,
\* and that exit writes no save and changes no setting; in Endless and
\* TimeAttack mode Escape changes nothing, so the only way out of Playing is
\* GameOver.
C27_EscapeOnlyInCheckpoints == []C27_Escape /\ [][C27_Frame]_vars

\* a Checkpoints run with points scored left by Escape, no file written
C27_LeftByEscape ==
    /\ state = "Playing"
    /\ next_state = Some("MainMenu")
    /\ settings.selected_mode = "GameMode::Checkpoints"
    /\ Unwrap(score).current >= 1
    /\ saveLog = None
    /\ \A k \in SLOTS : files[k] = NoFile

\* ---- C28
\* each mode resource exists exactly in the Playing state of its mode
C28_Exists ==
    /\ IsSome(cp) <=>
           (state = "Playing" /\ settings.selected_mode = "GameMode::Checkpoints")
    /\ IsSome(timer) <=>
           (state = "Playing" /\ settings.selected_mode = "GameMode::TimeAttack")

\* entering Playing gives the first checkpoint of the difficulty's list with
\* nothing reached, or 60 seconds; leaving Playing removes both
C28_Enter ==
    /\ (state # "Playing" /\ state' = "Playing") =>
           /\ settings'.selected_mode = "GameMode::Checkpoints" =>
                  /\ IsSome(cp')
                  /\ Unwrap(cp').current_checkpoint_index = 0
                  /\ Unwrap(cp').last_checkpoint_score = 0
                  /\ ~Unwrap(cp').completed
           /\ settings'.selected_mode = "GameMode::TimeAttack" =>
                  timer' = Some([remaining |-> 60])
    /\ (state = "Playing" /\ state' # "Playing") => (cp' = None /\ timer' = None)

\* C28: mode state lives exactly as long as the run: CheckpointsState exists
\* in a frame if and only if the state is Playing and the mode is Checkpoints,
\* TimeAttackState if and only if the state is Playing and the mode is
\* TimeAttack; both are removed on leaving Playing, so every run starts at
\* checkpoint index 0 with last_checkpoint_score 0, or at 60 seconds remaining.
C28_ModeStateLivesWithRun == []C28_Exists /\ [][C28_Enter]_vars

\* the second run of the session, a Checkpoints run, at its start
C28_SecondRunStartsAtFirstCheckpoint ==
    /\ state = "Playing"
    /\ runs = 2
    /\ settings.selected_mode = "GameMode::Checkpoints"
    /\ IsSome(cp)
    /\ Unwrap(cp).current_checkpoint_index = 0
    /\ Unwrap(cp).last_checkpoint_score = 0
    /\ timer = None

\* ---- C29
\* best is never below current, and equals it during a run of a mode without
\* respawn
C29_Best ==
    IsSome(score) =>
        /\ Unwrap(score).best >= Unwrap(score).current
        /\ (state = "Playing" /\ settings.selected_mode # "GameMode::Checkpoints") =>
               Unwrap(score).best = Unwrap(score).current

\* entering Playing sets both to 0; a frame of the run raises best exactly to
\* the highest value current takes in it, which is current + 1 when a pipe
\* scores, also when a death then takes current back to the last checkpoint
C29_Frame ==
    /\ (state # "Playing" /\ state' = "Playing") =>
           score' = Some([current |-> 0, best |-> 0])
    /\ (state = "Playing" /\ state' = "Playing") =>
           /\ Unwrap(score').best >= Unwrap(score).best
           /\ Unwrap(score').best >= Unwrap(score').current
           /\ Unwrap(score').best > Unwrap(score).best =>
                  Unwrap(score').best = Unwrap(score).current + 1
           /\ Unwrap(score').current > Unwrap(score).current =>
                  /\ Unwrap(score').current = Unwrap(score).current + 1
                  /\ Unwrap(score').best = Max(Unwrap(score).best,
                                               Unwrap(score').current)
           /\ settings.selected_mode # "GameMode::Checkpoints" =>
                  Unwrap(score').current >= Unwrap(score).current

\* C29: score.best is the maximum value score.current has taken in the
\* current run: both are 0 on every entry to Playing (best is not taken from
\* the profile's high_score or from earlier runs), score.best >= score.current
\* in every reachable state, and in Endless and TimeAttack mode, where
\* score.current never decreases during a run, score.best = score.current.
C29_BestIsRunMaximum == []C29_Best /\ [][C29_Frame]_vars

\* the second run of a slot whose profile has a high score of 1 starts with
\* current and best at 0
C29_SecondRunStartsAtZero ==
    /\ state = "Playing"
    /\ runs = 2
    /\ score = Some([current |-> 0, best |-> 0])
    /\ IsSome(settings.current_slot)
    /\ IsSome(load_save_slot(files, Unwrap(settings.current_slot)))
    /\ Unwrap(load_save_slot(files, Unwrap(settings.current_slot))).profile.high_score = 1

\* the frame that begins finds Space up: no press of the player of a timed
\* run is counted, and the player of an Endless run has let go or holds still
C30_SpaceUp ==
    IF settings.selected_mode = "GameMode::TimeAttack"
    THEN flaps' = flaps
    ELSE released' \/ ~Hover(Unwrap(bird))

\* a frame of an Endless or timed run that finds Space up leaves the bird
\* slower than it found it
C30_Slower ==
    (/\ state = "Playing" /\ Idle
     /\ settings.selected_mode # "GameMode::Checkpoints"
     /\ C30_SpaceUp)
        => Unwrap(bird').velocity < Unwrap(bird).velocity

\* an Endless or timed run, whose player presses Space in finitely many
\* frames in these runs, gets to the game-over screen
C30_Ends ==
    (state = "Playing" /\ settings.selected_mode # "GameMode::Checkpoints")
        ~> (state = "GameOver")

\* a Checkpoints run whose player has let go of Space stays in Playing
C30_Stays ==
    (/\ state = "Playing"
     /\ settings.selected_mode = "GameMode::Checkpoints"
     /\ released)
        => state' = "Playing"

\* a Checkpoints run whose player has let go of Space leaves Playing for the
\* victory screen only, with the last threshold reached
C30_LeavesWon ==
    (/\ state = "Playing"
     /\ settings.selected_mode = "GameMode::Checkpoints"
     /\ released
     /\ state' # "Playing")
        => /\ state' = "Victory"
           /\ Unwrap(score).current >=
                  Unwrap(cp).checkpoints[Len(Unwrap(cp).checkpoints)]

\* C30: in Endless or TimeAttack mode, once the player presses Space no more
\* and frame deltas are positive, the bird's velocity decreases every frame
\* and the run reaches GameOver; in Checkpoints mode the same run never leaves
\* Playing by itself.
C30_NoSpaceEndsRunOrRespawns ==
    /\ [][C30_Slower]_vars
    /\ C30_Ends
    /\ [][C30_Stays]_vars

\* C30, with Victory as the one way out of a Checkpoints run without Space:
\* in Endless or TimeAttack mode, once the player presses Space no more and
\* frame deltas are positive, the bird's velocity decreases every frame and
\* the run reaches GameOver; in Checkpoints mode the same run never reaches
\* GameOver and leaves Playing only for Victory, with score.current at or
\* above the last threshold.
C30_NoSpaceEndsRunOrWins ==
    /\ [][C30_Slower]_vars
    /\ C30_Ends
    /\ [][C30_LeavesWon]_vars

\* the last threshold of a Checkpoints run is reached by a bird that has been
\* falling since its player let go of Space, faster by now than a flap rises
C30_WonAfterLettingGo ==
    /\ state = "Playing"
    /\ next_state = Some("Victory")
    /\ released
    /\ Unwrap(bird).velocity < 0 - difficulty_tuning(settings.selected_difficulty).flap

====
